---- MODULE Spec2Model ----
(***************************************************************************)
(* Access arbitration of the HSerial library: HSerialAccess (transition    *)
(* queue, access-call guard, active/current controller changes),           *)
(* HSerialController (delegation, default callbacks) and HSerial (the      *)
(* lockable controller).                                                   *)
(*                                                                         *)
(* Every thread runs a call stack of frames; one action is one step of the *)
(* top frame, no larger than one critical section of the code.             *)
(***************************************************************************)
EXTENDS Integers, Sequences, FiniteSets, TLC

\* ---------------------------------------------------------------- bounds
\* tb_nextNumber is capped: at most MaxTicket numbers are handed out per run;
\* a call that comes later stays in front of the queue.
MaxTicket == 2
\* Of the functions that a callback calls inside a function that holds the
\* queue, at most MaxNested take a number of their own.
MaxNested == 1

\* ------------------------------------------------------------ the world
Threads == {"t1", "t2"}
NoThread == "no_thread"          \* a default-constructed std::thread::id

\* P and Q are user-written controllers: P registered Q as its delegate in
\* its constructor and Q registered D; D and A are HSerial instances. Q is a
\* part of P: no thread calls its functions from outside, and its callbacks
\* only accept or refuse.
Controllers == {"P", "Q", "D", "A"}
HSerials == {"D", "A"}
Callers == {"P", "D", "A"}
NULL == "NULL"

delegates == [c \in Controllers |->
                 IF c = "P" THEN <<"Q">> ELSE IF c = "Q" THEN <<"D">> ELSE <<>>]

\* ------------------------------------------------------------ variables
VARIABLES
    \* HSerialAccess
    state_currentController,
    state_activeController,
    state_numUnreturnedAccessCalls,
    state_accessIsUnblocked,
    state_transitionInProgress,
    state_concurrentActiveControllerChangeAllowed,
    state_transitionThread,
    tb_nextNumber,
    tb_readyNumber,
    \* HSerial, one value per instance
    isLocked,
    _isLockedActive,
    setIsLockedActive,
    am_callThread,       \* NoThread: am_callInProgress is false and
                         \* am_serializingMutex is free
    isLockedMutex,       \* the thread holding the mutex, or NoThread
    \* threads
    stk,                 \* call stack, bottom frame first
    exc,                 \* the exception in flight
    \* history
    snap,                \* observable state at the start of the thread's call,
                         \* following the writes of the other threads
    swapped,             \* the thread's call committed a concurrent active change
    log,                 \* the callbacks made in the thread's call, in order
    \* construction
    registered,          \* HSerialController::delegates of each controller while
                         \* the controllers are constructed
    registration,        \* the last call of registerDelegate and how it ended
    device_access,       \* HSerialDevice::access, the weak pointer: the number of
                         \* the Access object it was last assigned, 0 before
    controller_access,   \* HSerialController::access of each controller: the
                         \* number of the Access object it shares, 0 while the
                         \* controller does not exist
    created              \* how many Access objects were created so far

devVars == <<device_access, controller_access, created>>
hsVars == <<isLocked, _isLockedActive, setIsLockedActive, am_callThread, isLockedMutex>>
tbVars == <<tb_nextNumber, tb_readyNumber>>
tranVars == <<state_transitionInProgress,
              state_concurrentActiveControllerChangeAllowed, state_transitionThread>>
ctlVars == <<state_currentController, state_activeController>>
accVars == <<state_numUnreturnedAccessCalls, state_accessIsUnblocked>>
vars == <<state_currentController, state_activeController,
          state_numUnreturnedAccessCalls, state_accessIsUnblocked,
          state_transitionInProgress, state_concurrentActiveControllerChangeAllowed,
          state_transitionThread, tb_nextNumber, tb_readyNumber,
          isLocked, _isLockedActive, setIsLockedActive, am_callThread, isLockedMutex,
          stk, exc, snap, swapped, log, registered, registration,
          device_access, controller_access, created>>

\* ----------------------------------------------------------- exceptions
NoExc == [kind |-> "none", by |-> NULL, why |-> ""]
ControllerRefuses(c, why) == [kind |-> "ControllerRefuses", by |-> c, why |-> why]
logic_error(why) == [kind |-> "logic_error", by |-> NULL, why |-> why]
NotActiveController(c) == [kind |-> "NotActiveController", by |-> c, why |-> "not active"]
runtime_error(c) == [kind |-> "runtime_error", by |-> c, why |-> "didMakeActive"]

\* --------------------------------------------------------------- frames
Frame(fn, pc, c) ==
    [fn |-> fn, pc |-> pc, c |-> c, op |-> fn, old |-> NULL, flag |-> FALSE,
     lst |-> <<>>, noti |-> <<>>, e |-> NoExc, number |-> 0]

Top(t) == stk[t][Len(stk[t])]
Rest(t) == SubSeq(stk[t], 1, Len(stk[t]) - 1)
At(t, fn, pc) == stk[t] # <<>> /\ Top(t).fn = fn /\ Top(t).pc = pc
Throwing(t) == exc[t].kind # "none"

\* The finished call: its outcome stays visible until the caller goes on.
Done(f, e) == [Frame("done", e.kind, f.c) EXCEPT !.op = f.fn, !.e = e]

Replace(t, f) == stk' = [stk EXCEPT ![t] = Rest(t) \o <<f>>]
Goto(t, pc) == Replace(t, [Top(t) EXCEPT !.pc = pc])
Call(t, f, callee) == stk' = [stk EXCEPT ![t] = Rest(t) \o <<f>> \o callee]
\* Leave the top frame with e in flight (NoExc: a normal return).
Return(t, e) ==
    IF Len(stk[t]) = 1
    THEN /\ stk' = [stk EXCEPT ![t] = <<Done(Top(t), e)>>]
         /\ exc' = [exc EXCEPT ![t] = NoExc]
    ELSE /\ stk' = [stk EXCEPT ![t] = Rest(t)]
         /\ exc' = [exc EXCEPT ![t] = e]

InFrame(t, fns) == \E i \in 1..Len(stk[t]) : stk[t][i].fn \in fns

\* ----------------------------------------------------------- delegation
RECURSIVE hasAsDelegateOrSubdelegate(_, _)
hasAsDelegateOrSubdelegate(self, otherController) ==
    /\ otherController # NULL
    /\ \E i \in 1..Len(delegates[self]) :
          \/ delegates[self][i] = otherController
          \/ hasAsDelegateOrSubdelegate(delegates[self][i], otherController)

RECURSIVE Concat(_)
Concat(ss) == IF ss = <<>> THEN <<>> ELSE Head(ss) \o Concat(Tail(ss))

RECURSIVE appendDelegatesOfDegree(_, _)
appendDelegatesOfDegree(self, degree) ==
    IF degree < 0 THEN <<>>
    ELSE IF degree = 0 THEN <<self>>
    ELSE Concat([i \in 1..Len(delegates[self]) |->
                    appendDelegatesOfDegree(delegates[self][i], degree - 1)])

RECURSIVE DegreesFrom(_, _)
DegreesFrom(self, degree) ==
    LET appended == appendDelegatesOfDegree(self, degree)
    IN  IF appended = <<>> THEN <<>> ELSE appended \o DegreesFrom(self, degree + 1)

getControllersList(self) == <<self>> \o DegreesFrom(self, 1)

isInAccessList(controller) ==
    LET cc == state_currentController
    IN  cc # NULL /\ (cc = controller \/ hasAsDelegateOrSubdelegate(cc, controller))

\* ---------------------------------------------------------------- mutex
\* stateMutex is held across steps only between the two stores of
\* performTransition's commit.
StateMutexFree == \A t \in Threads : ~At(t, "performTransition", "store_current")

\* Fault: the guard admits a controller that is not active.
NoActiveCheck(controller) == FALSE

throwIfNotActiveController(controller) == controller # state_activeController

\* Fault: the utilities do not ask which thread calls.
AnyThreadInTransition(t) == ~state_transitionInProgress

throwIfNotTransitionCorrect(t) ==
    ~state_transitionInProgress \/ t # state_transitionThread

\* ------------------------------------------------------------ Init
NoRegistration == [self |-> NULL, delegate |-> NULL, thrown |-> "none"]

\* The controllers are constructed: their delegates are registered.
\* Every controller shares the one Access object of the device.
Attached ==
    /\ device_access = 1
    /\ controller_access = [c \in Controllers |-> 1]
    /\ created = 1

Constructed == registered = delegates /\ registration = NoRegistration /\ Attached

Init ==
    /\ Constructed
    /\ state_currentController = NULL
    /\ state_activeController = NULL
    /\ state_numUnreturnedAccessCalls = 0
    /\ state_accessIsUnblocked = TRUE
    \* neither has an initializer: indeterminate until the first TransitionBlocker
    /\ state_transitionInProgress \in BOOLEAN
    /\ state_concurrentActiveControllerChangeAllowed \in BOOLEAN
    /\ state_transitionThread = NoThread
    /\ tb_nextNumber = 0
    /\ tb_readyNumber = 0
    \* HSerial::isLocked has no initializer either
    /\ isLocked \in [HSerials -> BOOLEAN]
    /\ _isLockedActive = [c \in HSerials |-> FALSE]
    /\ setIsLockedActive = [c \in HSerials |-> FALSE]
    /\ am_callThread = [c \in HSerials |-> NoThread]
    /\ isLockedMutex = [c \in HSerials |-> NoThread]
    /\ stk = [t \in Threads |-> <<>>]
    /\ exc = [t \in Threads |-> NoExc]
    /\ snap = [t \in Threads |-> <<>>]
    /\ swapped = [t \in Threads |-> FALSE]
    /\ log = [t \in Threads |-> <<>>]


\* ------------------------------------------------------------- history
Obs == [cur |-> state_currentController, act |-> state_activeController,
        il |-> isLocked, la |-> _isLockedActive]

\* What the other threads write is carried into a running call's snapshot, so
\* that the snapshot differs from the state only by the call's own writes.
Follow(s) ==
    [cur |-> IF state_currentController' # state_currentController
             THEN state_currentController' ELSE s.cur,
     act |-> IF state_activeController' # state_activeController
             THEN state_activeController' ELSE s.act,
     il |-> [c \in HSerials |-> IF isLocked'[c] # isLocked[c] THEN isLocked'[c] ELSE s.il[c]],
     la |-> [c \in HSerials |->
                IF _isLockedActive'[c] # _isLockedActive[c] THEN _isLockedActive'[c]
                ELSE s.la[c]]]

InConcurrentChange(t) ==
    \E i \in 1..Len(stk[t]) : stk[t][i].pc = "fast_ret"

\* A callback made on a controller, or what the call found or did there.
Ev(cb, c) == [cb |-> cb, c |-> c]

Trace(t, events) ==
    log' = [log EXCEPT ![t] = IF stk'[t] = <<>> THEN <<>> ELSE @ \o events]

Remember(t) ==
    /\ snap' = [u \in Threads |->
                  IF stk'[u] = <<>> THEN <<>>
                  ELSE IF u = t THEN (IF stk[t] = <<>> THEN <<Obs>> ELSE snap[t])
                  ELSE <<Follow(snap[u][1])>>]
    /\ swapped' = [swapped EXCEPT ![t] =
                  /\ stk[t] # <<>>
                  /\ stk'[t] # <<>>
                  /\ \/ swapped[t]
                     \/ /\ InConcurrentChange(t)
                        /\ state_activeController' # state_activeController]

\* The trailing bookkeeping of a step that makes no callback, and of one that
\* makes the callbacks listed.
History(t) == Remember(t) /\ Trace(t, <<>>) /\ UNCHANGED <<registered, registration, devVars>>
Calls(t, events) == Remember(t) /\ Trace(t, events) /\ UNCHANGED <<registered, registration, devVars>>

Each(cb, list) == [i \in 1..Len(list) |-> Ev(cb, list[i])]

\* Fault: the list is used as it comes.
NotReversed(list) == list

Reverse(list) == [i \in 1..Len(list) |-> list[Len(list) + 1 - i]]

\* The step leaves the callback of the top frame with an exception.
Throws(t, cb) == IF exc'[t].kind # "none" THEN <<Ev(cb, Top(t).c)>> ELSE <<>>

\* ---------------------------------------------------------- invocation
\* The transition utilities are protected members: a user-written controller
\* can call them from any of its functions, on any thread.
TransitionUtilities ==
    {"blockAccessCalls", "unblockAccessCalls", "waitForAllAccessCallsToReturn"}

PublicFunctions(c) ==
    IF c \in HSerials
    THEN {"access", "HSerial::makeActive", "HSerial::makeLockedActive",
          "HSerial::makeInactive", "HSerial::unlockActive", "HSerial::removeFromAccess"}
    ELSE {"access", "makeActive", "makeInactive", "removeFromAccess"}

\* An idle thread calls a function of the user-written controller P: one of
\* its public functions except removeFromAccess, or one that calls a
\* transition utility.
InvokeUser(t) ==
    /\ stk[t] = <<>>
    /\ \E fn \in {"access", "makeActive", "makeInactive"} \cup TransitionUtilities :
          /\ stk' = [stk EXCEPT ![t] = <<Frame(fn, "start", "P")>>]
    /\ UNCHANGED <<ctlVars, accVars, tranVars, tbVars, hsVars, exc>>
    /\ History(t)

\* An idle thread calls a public function of a controller.
Invoke(t) ==
    /\ stk[t] = <<>>
    /\ \E c \in Callers : \E fn \in PublicFunctions(c) :
          /\ stk' = [stk EXCEPT ![t] = <<Frame(fn, "start", c)>>]
    /\ UNCHANGED <<ctlVars, accVars, tranVars, tbVars, hsVars, exc>>
    /\ History(t)

\* The caller takes the outcome of its finished call.
Finish(t) ==
    /\ stk[t] # <<>>
    /\ Top(t).fn = "done"
    /\ stk' = [stk EXCEPT ![t] = <<>>]
    /\ UNCHANGED <<ctlVars, accVars, tranVars, tbVars, hsVars, exc>>
    /\ History(t)

\* ---------------------------------------------------------- AccessGuard
\* Fault: the predicate of the guard makes no exception for the transition
\* thread.
GuardBlocksEveryThread(t) ==
    /\ At(t, "access", "start")
    /\ StateMutexFree
    /\ state_transitionInProgress => state_accessIsUnblocked
    /\ IF throwIfNotActiveController(Top(t).c)
       THEN /\ Return(t, logic_error("not active"))
            /\ UNCHANGED state_numUnreturnedAccessCalls
       ELSE /\ state_numUnreturnedAccessCalls' = state_numUnreturnedAccessCalls + 1
            /\ Goto(t, "serial")
            /\ UNCHANGED exc
    /\ UNCHANGED <<ctlVars, state_accessIsUnblocked, tranVars, tbVars, hsVars>>
    /\ History(t)

\* Fault: the guard admits the call without asking whether its controller is
\* the active one.
GuardAdmitsInactive(t) ==
    /\ At(t, "access", "start")
    /\ StateMutexFree
    /\ state_transitionInProgress =>
          (t = state_transitionThread \/ state_accessIsUnblocked)
    /\ state_numUnreturnedAccessCalls' = state_numUnreturnedAccessCalls + 1
    /\ Goto(t, "serial")
    /\ UNCHANGED <<ctlVars, state_accessIsUnblocked, tranVars, tbVars, hsVars, exc>>
    /\ History(t)

AccessGuard_ctor(t) ==
    /\ At(t, "access", "start")
    /\ StateMutexFree
    /\ state_transitionInProgress =>
          (t = state_transitionThread \/ state_accessIsUnblocked)
    /\ IF throwIfNotActiveController(Top(t).c)
       THEN /\ Return(t, logic_error("not active"))
            /\ UNCHANGED state_numUnreturnedAccessCalls
       ELSE /\ state_numUnreturnedAccessCalls' = state_numUnreturnedAccessCalls + 1
            /\ Goto(t, "serial")
            /\ UNCHANGED exc
    /\ UNCHANGED <<ctlVars, state_accessIsUnblocked, tranVars, tbVars, hsVars>>
    /\ History(t)

\* The Serial call has returned.
AccessGuard_dtor(t) ==
    /\ At(t, "access", "serial")
    /\ StateMutexFree
    /\ state_numUnreturnedAccessCalls' = state_numUnreturnedAccessCalls - 1
    /\ Return(t, NoExc)
    /\ UNCHANGED <<ctlVars, state_accessIsUnblocked, tranVars, tbVars, hsVars>>
    /\ History(t)

\* ------------------------------------------------- HSerialAccess, entry
\* Fault: the concurrent branch does not ask for the transition thread.
AnyThreadConcurrent(t, controller) ==
    /\ state_transitionInProgress
    /\ state_concurrentActiveControllerChangeAllowed
    /\ isInAccessList(controller)

\* Fault: the flags a finished transition left behind are trusted.
StaleFlagsTrusted(t, controller) ==
    /\ state_concurrentActiveControllerChangeAllowed
    /\ state_transitionThread = t
    /\ isInAccessList(controller)

shouldPerformConcurrentActiveControllerChange(t, controller) ==
    /\ state_transitionInProgress
    /\ state_concurrentActiveControllerChangeAllowed
    /\ state_transitionThread = t
    /\ isInAccessList(controller)

WillMakeInactiveFrame(x) ==
    Frame("willMakeInactive", IF x \in HSerials THEN "check" ELSE "choose", x)

\* performTransition(newController, alsoSetAsCurrentController) up to the call
\* of the old active controller's willMakeInactive.
performTransitionFrames(newController, alsoSetAsCurrentController) ==
    LET oldActiveController == state_activeController
    IN  <<[Frame("performTransition", "commit", newController) EXCEPT
              !.old = oldActiveController, !.flag = alsoSetAsCurrentController]>>
        \o (IF oldActiveController # NULL
            THEN <<WillMakeInactiveFrame(oldActiveController)>> ELSE <<>>)

\* Fault: an active controller change has performTransition store the
\* current controller too.
ActiveChangeSetsCurrent(newActiveController) ==
    <<Frame("performActiveControllerChange", "didMakeActive", newActiveController)>>
    \o performTransitionFrames(newActiveController, TRUE)

performActiveControllerChangeFrames(newActiveController) ==
    <<Frame("performActiveControllerChange", "didMakeActive", newActiveController)>>
    \o performTransitionFrames(newActiveController, FALSE)

performCurrentControllerChangeFrames(newCurrentController) ==
    <<Frame("performCurrentControllerChange", "start", newCurrentController)>>

\* The thread is inside a function that holds the queue.
Nested(t) == \E i \in 1..Len(stk[t]) : stk[t][i].pc = "tb_dtor"

\* The numbers taken by functions that wait in the queue inside a function
\* that holds it.
NestedTickets ==
    Cardinality({u \in Threads :
        stk[u] # <<>> /\ Top(u).pc = "tb_wait" /\ Nested(u)})

\* The numbers left: MaxTicket for the calls made from outside, MaxNested more
\* for the calls made inside a function that holds the queue.
TicketsLeft(t) ==
    IF Nested(t) THEN NestedTickets < MaxNested
    ELSE IF tb_nextNumber < MaxTicket THEN TRUE
    ELSE tb_nextNumber - NestedTickets < MaxTicket

\* Fault: a function called inside the function that holds the queue goes on
\* with the number of that function.
TicketOfEnclosing(t) ==
    /\ TicketsLeft(t)
    /\ IF Nested(t)
       THEN /\ UNCHANGED tb_nextNumber
            /\ Replace(t, [Top(t) EXCEPT !.pc = "tb_wait", !.number = tb_readyNumber])
       ELSE /\ tb_nextNumber' = tb_nextNumber + 1
            /\ Replace(t, [Top(t) EXCEPT !.pc = "tb_wait", !.number = tb_nextNumber])

\* TransitionBlocker's constructor up to the wait: number = tb_nextNumber++.
TakeTicket(t) ==
    /\ TicketsLeft(t)
    /\ tb_nextNumber' = tb_nextNumber + 1
    /\ Replace(t, [Top(t) EXCEPT !.pc = "tb_wait", !.number = tb_nextNumber])

\* makeActive up to the number it takes in the queue, or the entry of the
\* concurrent branch.
makeActive(t) ==
    /\ At(t, "makeActive", "start")
    /\ StateMutexFree
    /\ LET controller == Top(t).c
       IN  IF shouldPerformConcurrentActiveControllerChange(t, controller)
           THEN /\ IF controller # state_activeController
                   THEN /\ Call(t, [Top(t) EXCEPT !.pc = "fast_ret"],
                                 performActiveControllerChangeFrames(controller))
                        /\ UNCHANGED exc
                   ELSE Return(t, NoExc)
                /\ UNCHANGED tb_nextNumber
           ELSE TakeTicket(t) /\ UNCHANGED exc
    /\ UNCHANGED <<ctlVars, accVars, tranVars, tb_readyNumber, hsVars>>
    /\ Calls(t, IF /\ shouldPerformConcurrentActiveControllerChange(t, Top(t).c)
                   /\ Top(t).c # state_activeController
                THEN <<Ev("concurrent", Top(t).c)>> ELSE <<>>)

\* Fault: makeInactive returns without looking at the active controller.
MakeInactiveReturns(t) ==
    /\ At(t, "makeInactive", "start")
    /\ Return(t, NoExc)
    /\ UNCHANGED <<ctlVars, accVars, tranVars, tbVars, hsVars>>
    /\ History(t)

makeInactive(t) ==
    /\ At(t, "makeInactive", "start")
    /\ StateMutexFree
    /\ LET controller == Top(t).c
       IN  IF shouldPerformConcurrentActiveControllerChange(t, controller)
           THEN /\ IF controller = state_activeController
                   THEN /\ Call(t, [Top(t) EXCEPT !.pc = "fast_ret"],
                                 performActiveControllerChangeFrames(NULL))
                        /\ UNCHANGED exc
                   ELSE Return(t, NoExc)
                /\ UNCHANGED tb_nextNumber
           ELSE TakeTicket(t) /\ UNCHANGED exc
    /\ UNCHANGED <<ctlVars, accVars, tranVars, tb_readyNumber, hsVars>>
    /\ Calls(t, IF /\ shouldPerformConcurrentActiveControllerChange(t, Top(t).c)
                   /\ Top(t).c = state_activeController
                THEN <<Ev("concurrent", NULL)>> ELSE <<>>)

removeFromAccess(t) ==
    /\ At(t, "removeFromAccess", "start")
    /\ TakeTicket(t)
    /\ UNCHANGED <<ctlVars, accVars, tranVars, tb_readyNumber, hsVars, exc>>
    /\ History(t)

\* The concurrent branch has no TransitionBlocker: it just returns.
ConcurrentChangeReturn(t) ==
    /\ stk[t] # <<>>
    /\ Top(t).pc = "fast_ret"
    /\ Return(t, exc[t])
    /\ UNCHANGED <<ctlVars, accVars, tranVars, tbVars, hsVars>>
    /\ History(t)

\* Fault: makeActive does not look whether its controller is active already.
NoActiveShortcut(fn, controller) ==
    CASE fn = "makeActive" ->
            IF isInAccessList(controller)
            THEN <<performActiveControllerChangeFrames(controller), NoExc>>
            ELSE <<performCurrentControllerChangeFrames(controller), NoExc>>
      [] fn = "makeInactive" ->
            IF controller = state_activeController
            THEN <<performActiveControllerChangeFrames(NULL), NoExc>>
            ELSE <<<<>>, NoExc>>
      [] fn = "removeFromAccess" ->
            IF isInAccessList(controller)
            THEN IF controller = state_currentController
                 THEN <<performCurrentControllerChangeFrames(NULL), NoExc>>
                 ELSE <<<<>>, logic_error("not the current controller")>>
            ELSE <<<<>>, NoExc>>

\* Fault: makeInactive does not look whether its controller is the active one.
MakeInactiveAlways(fn, controller) ==
    CASE fn = "makeActive" ->
            IF isInAccessList(controller)
            THEN IF controller # state_activeController
                 THEN <<performActiveControllerChangeFrames(controller), NoExc>>
                 ELSE <<<<>>, NoExc>>
            ELSE <<performCurrentControllerChangeFrames(controller), NoExc>>
      [] fn = "makeInactive" -> <<performActiveControllerChangeFrames(NULL), NoExc>>
      [] fn = "removeFromAccess" ->
            IF isInAccessList(controller)
            THEN IF controller = state_currentController
                 THEN <<performCurrentControllerChangeFrames(NULL), NoExc>>
                 ELSE <<<<>>, logic_error("not the current controller")>>
            ELSE <<<<>>, NoExc>>

\* Fault: makeActive makes a current controller change whatever the access
\* list holds.
AlwaysCurrentChange(fn, controller) ==
    CASE fn = "makeActive" ->
            IF controller # state_activeController
            THEN <<performCurrentControllerChangeFrames(controller), NoExc>>
            ELSE <<<<>>, NoExc>>
      [] fn = "makeInactive" ->
            IF controller = state_activeController
            THEN <<performActiveControllerChangeFrames(NULL), NoExc>>
            ELSE <<<<>>, NoExc>>
      [] fn = "removeFromAccess" ->
            IF isInAccessList(controller)
            THEN IF controller = state_currentController
                 THEN <<performCurrentControllerChangeFrames(NULL), NoExc>>
                 ELSE <<<<>>, logic_error("not the current controller")>>
            ELSE <<<<>>, NoExc>>

\* Fault: removeFromAccess empties the access list for a delegate too.
RemoveDelegateAnyway(fn, controller) ==
    CASE fn = "makeActive" ->
            IF isInAccessList(controller)
            THEN IF controller # state_activeController
                 THEN <<performActiveControllerChangeFrames(controller), NoExc>>
                 ELSE <<<<>>, NoExc>>
            ELSE <<performCurrentControllerChangeFrames(controller), NoExc>>
      [] fn = "makeInactive" ->
            IF controller = state_activeController
            THEN <<performActiveControllerChangeFrames(NULL), NoExc>>
            ELSE <<<<>>, NoExc>>
      [] fn = "removeFromAccess" ->
            IF isInAccessList(controller)
            THEN <<performCurrentControllerChangeFrames(NULL), NoExc>>
            ELSE <<<<>>, NoExc>>

\* Fault: removeFromAccess makes the active controller inactive and leaves
\* the access list as it is.
RemoveOnlyInactivates(fn, controller) ==
    CASE fn = "makeActive" ->
            IF isInAccessList(controller)
            THEN IF controller # state_activeController
                 THEN <<performActiveControllerChangeFrames(controller), NoExc>>
                 ELSE <<<<>>, NoExc>>
            ELSE <<performCurrentControllerChangeFrames(controller), NoExc>>
      [] fn = "makeInactive" ->
            IF controller = state_activeController
            THEN <<performActiveControllerChangeFrames(NULL), NoExc>>
            ELSE <<<<>>, NoExc>>
      [] fn = "removeFromAccess" ->
            IF isInAccessList(controller)
            THEN IF controller = state_currentController
                 THEN <<performActiveControllerChangeFrames(NULL), NoExc>>
                 ELSE <<<<>>, logic_error("not the current controller")>>
            ELSE <<<<>>, NoExc>>

\* What the queued branch of each function does once it holds the queue.
\* <<frames to run, exception thrown at once>>
\* Fault: a controller that another controller has registered as a delegate
\* is not made the current controller.
DelegateNotMadeCurrent(fn, controller) ==
    CASE fn = "makeActive" ->
            IF isInAccessList(controller)
            THEN IF controller # state_activeController
                 THEN <<performActiveControllerChangeFrames(controller), NoExc>>
                 ELSE <<<<>>, NoExc>>
            ELSE IF \E p \in Controllers : hasAsDelegateOrSubdelegate(p, controller)
                 THEN <<<<>>, NoExc>>
                 ELSE <<performCurrentControllerChangeFrames(controller), NoExc>>
      [] fn = "makeInactive" ->
            IF controller = state_activeController
            THEN <<performActiveControllerChangeFrames(NULL), NoExc>>
            ELSE <<<<>>, NoExc>>
      [] fn = "removeFromAccess" ->
            IF isInAccessList(controller)
            THEN IF controller = state_currentController
                 THEN <<performCurrentControllerChangeFrames(NULL), NoExc>>
                 ELSE <<<<>>, logic_error("not the current controller")>>
            ELSE <<<<>>, NoExc>>

QueuedBody(fn, controller) ==
    CASE fn = "makeActive" ->
            IF isInAccessList(controller)
            THEN IF controller # state_activeController
                 THEN <<performActiveControllerChangeFrames(controller), NoExc>>
                 ELSE <<<<>>, NoExc>>
            ELSE <<performCurrentControllerChangeFrames(controller), NoExc>>
      [] fn = "makeInactive" ->
            IF controller = state_activeController
            THEN <<performActiveControllerChangeFrames(NULL), NoExc>>
            ELSE <<<<>>, NoExc>>
      [] fn = "removeFromAccess" ->
            IF isInAccessList(controller)
            THEN IF controller = state_currentController
                 THEN <<performCurrentControllerChangeFrames(NULL), NoExc>>
                 ELSE <<<<>>, logic_error("not the current controller")>>
            ELSE <<<<>>, NoExc>>

\* Fault: the queue lets any number through.
AnyNumber(number) == TRUE

\* The predicate TransitionBlocker's constructor waits for.
predicate(number) == number = tb_readyNumber

\* TransitionBlocker's constructor from the wait on, and the function's choice
\* of the change to perform.
TransitionBlocker_ctor(t) ==
    /\ stk[t] # <<>>
    /\ Top(t).pc = "tb_wait"
    /\ predicate(Top(t).number)
    /\ StateMutexFree
    /\ state_transitionInProgress' = TRUE
    /\ state_concurrentActiveControllerChangeAllowed' = FALSE
    /\ state_transitionThread' = t
    /\ LET body == QueuedBody(Top(t).fn, Top(t).c)
       IN  /\ Call(t, [Top(t) EXCEPT !.pc = "tb_dtor"], body[1])
           /\ exc' = [exc EXCEPT ![t] = body[2]]
    /\ UNCHANGED <<ctlVars, accVars, tbVars, hsVars>>
    /\ Calls(t, <<Ev("current", state_currentController),
                   Ev("active", state_activeController)>>)

\* ~TransitionBlocker, first critical section.
TransitionBlocker_dtor(t) ==
    /\ stk[t] # <<>>
    /\ Top(t).pc = "tb_dtor"
    /\ StateMutexFree
    /\ state_transitionInProgress' = FALSE
    /\ Goto(t, "tb_ready")
    /\ UNCHANGED <<ctlVars, accVars, state_concurrentActiveControllerChangeAllowed,
                   state_transitionThread, tbVars, hsVars, exc>>
    /\ History(t)

\* ~TransitionBlocker, second critical section; the function returns.
TransitionBlocker_ready(t) ==
    /\ stk[t] # <<>>
    /\ Top(t).pc = "tb_ready"
    /\ tb_readyNumber' = tb_readyNumber + 1
    /\ Return(t, exc[t])
    /\ UNCHANGED <<ctlVars, accVars, tranVars, tb_nextNumber, hsVars>>
    /\ History(t)


\* Fault: didMakeActive of a lockable controller keeps the mutex that
\* willMakeActive locked.
didMakeActiveKeepsMutex(t, x) ==
    IF x \in HSerials
    THEN /\ isLocked' = [isLocked EXCEPT ![x] = setIsLockedActive[x]]
         /\ _isLockedActive' = [_isLockedActive EXCEPT ![x] = setIsLockedActive[x]]
         /\ UNCHANGED <<setIsLockedActive, am_callThread, isLockedMutex, exc>>
    ELSE /\ \E throws \in BOOLEAN :
               exc' = [exc EXCEPT ![t] = IF throws THEN runtime_error(x) ELSE NoExc]
         /\ UNCHANGED hsVars

\* Fault: didMakeActive always leaves the controller unlocked.
didMakeActiveUnlocked(t, x) ==
    IF x \in HSerials
    THEN /\ isLocked' = [isLocked EXCEPT ![x] = FALSE]
         /\ _isLockedActive' = [_isLockedActive EXCEPT ![x] = FALSE]
         /\ isLockedMutex' = [isLockedMutex EXCEPT ![x] = NoThread]
         /\ UNCHANGED <<setIsLockedActive, am_callThread, exc>>
    ELSE UNCHANGED <<hsVars, exc>>

\* --------------------------------------------------- HSerial callbacks
\* didMakeActive of x. HSerial: apply setIsLockedActive and release the mutex
\* locked in willMakeActive. A user controller's override may throw.
didMakeActive(t, x) ==
    IF x \in HSerials
    THEN /\ isLocked' = [isLocked EXCEPT ![x] = setIsLockedActive[x]]
         /\ _isLockedActive' = [_isLockedActive EXCEPT ![x] = setIsLockedActive[x]]
         /\ isLockedMutex' = [isLockedMutex EXCEPT ![x] = NoThread]
         /\ UNCHANGED <<setIsLockedActive, am_callThread, exc>>
    ELSE /\ \E throws \in BOOLEAN :
               exc' = [exc EXCEPT ![t] = IF throws THEN runtime_error(x) ELSE NoExc]
         /\ UNCHANGED hsVars

\* Fault: didMakeInactive leaves isLocked as it was.
didMakeInactiveKeepsLock(x) ==
    IF x \in HSerials
    THEN /\ _isLockedActive' = [_isLockedActive EXCEPT ![x] = FALSE]
         /\ isLockedMutex' = [isLockedMutex EXCEPT ![x] = NoThread]
         /\ UNCHANGED <<isLocked, setIsLockedActive, am_callThread>>
    ELSE UNCHANGED hsVars

didMakeInactive(x) ==
    IF x \in HSerials
    THEN /\ isLocked' = [isLocked EXCEPT ![x] = FALSE]
         /\ _isLockedActive' = [_isLockedActive EXCEPT ![x] = FALSE]
         /\ isLockedMutex' = [isLockedMutex EXCEPT ![x] = NoThread]
         /\ UNCHANGED <<setIsLockedActive, am_callThread>>
    ELSE UNCHANGED hsVars

didCancelMakeInactive(x) ==
    IF x \in HSerials
    THEN /\ isLockedMutex' = [isLockedMutex EXCEPT ![x] = NoThread]
         /\ UNCHANGED <<isLocked, _isLockedActive, setIsLockedActive, am_callThread>>
    ELSE UNCHANGED hsVars

willMakeActive(t, x) ==
    IF x \in HSerials
    THEN /\ isLockedMutex[x] = NoThread
         /\ isLockedMutex' = [isLockedMutex EXCEPT ![x] = t]
         /\ UNCHANGED <<isLocked, _isLockedActive, setIsLockedActive, am_callThread>>
    ELSE UNCHANGED hsVars

\* Fault: every transition passes for one of the controller's own.
NeverExternal(t, x) == FALSE

transitionInitiatedExternally(t, x) ==
    am_callThread[x] = NoThread \/ am_callThread[x] # t

\* HSerial::willMakeInactive, the decision on the lock.
HSerial_willMakeInactive(t) ==
    /\ At(t, "willMakeInactive", "check")
    /\ LET x == Top(t).c
       IN  IF transitionInitiatedExternally(t, x)
           THEN /\ isLockedMutex[x] = NoThread
                /\ IF isLocked[x]
                   THEN Return(t, ControllerRefuses(x, "locked"))
                   ELSE Goto(t, "block") /\ UNCHANGED exc
           ELSE Goto(t, "block") /\ UNCHANGED exc
    /\ UNCHANGED <<ctlVars, accVars, tranVars, tbVars, hsVars>>
    /\ Calls(t, <<Ev("willMakeInactive", Top(t).c)>>
                 \o Throws(t, "willMakeInactive_throws"))

\* HSerial::willMakeInactive, isLockedMutex.lock() at its end.
HSerial_willMakeInactive_lock(t) ==
    /\ At(t, "willMakeInactive", "lock")
    /\ isLockedMutex[Top(t).c] = NoThread
    /\ isLockedMutex' = [isLockedMutex EXCEPT ![Top(t).c] = t]
    /\ Return(t, NoExc)
    /\ UNCHANGED <<ctlVars, accVars, tranVars, tbVars, isLocked, _isLockedActive,
                   setIsLockedActive, am_callThread>>
    /\ History(t)

\* willMakeInactive of a user controller: the default implementation, or an
\* override that returns without blocking, or one that blocks without waiting.
willMakeInactive(t) ==
    /\ At(t, "willMakeInactive", "choose")
    /\ \/ Goto(t, "block") /\ UNCHANGED exc
       \/ Goto(t, "block_only") /\ UNCHANGED exc
       \/ Return(t, NoExc)
    /\ UNCHANGED <<ctlVars, accVars, tranVars, tbVars, hsVars>>
    /\ Calls(t, <<Ev("willMakeInactive", Top(t).c)>>)

\* An override of willMakeInactive that blocks access and unblocks it again.
willMakeInactive_unblocks(t) ==
    /\ At(t, "willMakeInactive", "choose")
    /\ Goto(t, "block_unblock")
    /\ UNCHANGED <<ctlVars, accVars, tranVars, tbVars, hsVars, exc>>
    /\ Calls(t, <<Ev("willMakeInactive", Top(t).c)>>)

\* The utility is called in a willMakeInactive callback, or by a function of
\* the user-written controller made for it.
CallsUtility(t, fn, pcs) ==
    /\ stk[t] # <<>>
    /\ \/ Top(t).fn = "willMakeInactive" /\ Top(t).pc \in pcs
       \/ Top(t).fn = fn /\ Top(t).pc = "start"

blockAccessCalls(t) ==
    /\ CallsUtility(t, "blockAccessCalls", {"block", "block_only", "block_unblock"})
    /\ StateMutexFree
    /\ IF throwIfNotTransitionCorrect(t) \/ throwIfNotActiveController(Top(t).c)
       THEN /\ Return(t, logic_error("blockAccessCalls"))
            /\ UNCHANGED state_accessIsUnblocked
       ELSE /\ state_accessIsUnblocked' = FALSE
            /\ IF Top(t).pc \in {"block_only", "start"}
               THEN Return(t, NoExc)
               ELSE Goto(t, IF Top(t).pc = "block" THEN "wait" ELSE "unblock")
                    /\ UNCHANGED exc
    /\ UNCHANGED <<ctlVars, state_numUnreturnedAccessCalls, tranVars, tbVars, hsVars>>
    /\ Calls(t, Throws(t, "willMakeInactive_throws"))

unblockAccessCalls(t) ==
    /\ CallsUtility(t, "unblockAccessCalls", {"unblock"})
    /\ StateMutexFree
    /\ IF throwIfNotTransitionCorrect(t) \/ throwIfNotActiveController(Top(t).c)
       THEN /\ Return(t, logic_error("unblockAccessCalls"))
            /\ UNCHANGED state_accessIsUnblocked
       ELSE /\ state_accessIsUnblocked' = TRUE
            /\ Return(t, NoExc)
    /\ UNCHANGED <<ctlVars, state_numUnreturnedAccessCalls, tranVars, tbVars, hsVars>>
    /\ Calls(t, Throws(t, "willMakeInactive_throws"))

\* Fault: the result of the wait is not looked at.
WaitIgnoresTimeout(t) ==
    /\ At(t, "willMakeInactive", "wait")
    /\ StateMutexFree
    /\ IF throwIfNotTransitionCorrect(t) \/ throwIfNotActiveController(Top(t).c)
       THEN Return(t, logic_error("waitForAllAccessCallsToReturn"))
       ELSE IF Top(t).c \in HSerials
       THEN Goto(t, "lock") /\ UNCHANGED exc
       ELSE Return(t, NoExc)
    /\ UNCHANGED <<ctlVars, accVars, tranVars, tbVars, hsVars>>
    /\ Calls(t, Throws(t, "willMakeInactive_throws"))

\* wait_for returns its predicate: true once the calls have returned, false
\* when the timeout ends the wait first.
waitForAllAccessCallsToReturn(t) ==
    /\ CallsUtility(t, "waitForAllAccessCallsToReturn", {"wait"})
    /\ StateMutexFree
    /\ LET x == Top(t).c
           success == state_numUnreturnedAccessCalls = 0
       IN  IF throwIfNotTransitionCorrect(t) \/ throwIfNotActiveController(x)
           THEN Return(t, logic_error("waitForAllAccessCallsToReturn"))
           ELSE IF Top(t).pc = "start"
           THEN Return(t, NoExc)
           ELSE IF ~success
           THEN Return(t, ControllerRefuses(x, "access calls have not returned"))
           ELSE IF x \in HSerials
           THEN Goto(t, "lock") /\ UNCHANGED exc
           ELSE Return(t, NoExc)
    /\ UNCHANGED <<ctlVars, accVars, tranVars, tbVars, hsVars>>
    /\ Calls(t, Throws(t, "willMakeInactive_throws"))

\* --------------------------------------------------- performTransition
\* Fault: performTransition commits without checking.
NoRequirements(oldActiveController) == FALSE

\* Fault: performTransition does not look at the unreturned access calls.
OnlyBlockingRequired(oldActiveController) ==
    state_accessIsUnblocked /\ oldActiveController # NULL

\* The requirements performTransition checks before it commits: one of the
\* two logic errors is thrown.
requirementsNotMet(oldActiveController) ==
    \/ state_accessIsUnblocked /\ oldActiveController # NULL
    \/ state_numUnreturnedAccessCalls > 0

\* Fault: performTransition does not block access itself when no controller
\* was active.
CommitLeavesAccessAsIs(t) ==
    /\ At(t, "performTransition", "commit")
    /\ LET oldActiveController == Top(t).old
           newController == Top(t).c
           alsoSetAsCurrentController == Top(t).flag
       IN  IF Throwing(t)
           THEN /\ Return(t, exc[t])
                /\ UNCHANGED <<ctlVars, accVars, hsVars>>
           ELSE /\ StateMutexFree
                /\ IF requirementsNotMet(oldActiveController)
                   THEN /\ didCancelMakeInactive(oldActiveController)
                        /\ Return(t, logic_error("performTransition"))
                        /\ UNCHANGED <<ctlVars, accVars>>
                   ELSE /\ willMakeActive(t, newController)
                        /\ state_activeController' = newController
                        /\ Goto(t, IF alsoSetAsCurrentController
                                   THEN "store_current" ELSE "didMakeInactive")
                        /\ UNCHANGED <<state_currentController, accVars, exc>>
    /\ UNCHANGED <<tranVars, tbVars>>
    /\ Calls(t, IF Throwing(t) THEN <<>>
                ELSE IF requirementsNotMet(Top(t).old)
                THEN (IF Top(t).old # NULL
                      THEN <<Ev("didCancelMakeInactive", Top(t).old)>> ELSE <<>>)
                ELSE (IF Top(t).c # NULL
                      THEN <<Ev("willMakeActive", Top(t).c)>> ELSE <<>>)
                     \o <<Ev("commit", Top(t).c)>>)

\* The critical section of performTransition up to the store of the active
\* controller.
performTransition(t) ==
    /\ At(t, "performTransition", "commit")
    /\ LET oldActiveController == Top(t).old
           newController == Top(t).c
           alsoSetAsCurrentController == Top(t).flag
       IN  IF Throwing(t)
           THEN /\ Return(t, exc[t])    \* willMakeInactive threw
                /\ UNCHANGED <<ctlVars, accVars, hsVars>>
           ELSE /\ StateMutexFree
                /\ IF requirementsNotMet(oldActiveController)
                   THEN /\ state_accessIsUnblocked' =
                              (state_accessIsUnblocked /\ oldActiveController # NULL)
                        /\ didCancelMakeInactive(oldActiveController)
                        /\ Return(t, logic_error("performTransition"))
                        /\ UNCHANGED <<ctlVars, state_numUnreturnedAccessCalls>>
                   ELSE /\ state_accessIsUnblocked' = FALSE
                        /\ willMakeActive(t, newController)
                        /\ state_activeController' = newController
                        /\ Goto(t, IF alsoSetAsCurrentController
                                   THEN "store_current" ELSE "didMakeInactive")
                        /\ UNCHANGED <<state_currentController,
                                       state_numUnreturnedAccessCalls, exc>>
    /\ UNCHANGED <<tranVars, tbVars>>
    /\ Calls(t, IF Throwing(t) THEN <<>>
                ELSE IF requirementsNotMet(Top(t).old)
                THEN (IF Top(t).old # NULL
                      THEN <<Ev("didCancelMakeInactive", Top(t).old)>> ELSE <<>>)
                ELSE (IF Top(t).c # NULL
                      THEN <<Ev("willMakeActive", Top(t).c)>> ELSE <<>>)
                     \o <<Ev("commit", Top(t).c)>>)

\* Fault: the current controller is not stored with the active one.
CurrentNotStored(t) ==
    /\ At(t, "performTransition", "store_current")
    /\ Goto(t, "didMakeInactive")
    /\ UNCHANGED <<ctlVars, accVars, tranVars, tbVars, hsVars, exc>>
    /\ History(t)

\* The second store, still under stateMutex.
performTransition_current(t) ==
    /\ At(t, "performTransition", "store_current")
    /\ state_currentController' = Top(t).c
    /\ Goto(t, "didMakeInactive")
    /\ UNCHANGED <<state_activeController, accVars, tranVars, tbVars, hsVars, exc>>
    /\ History(t)

\* Fault: performTransition returns after the stores without didMakeInactive.
NoDidMakeInactive(t) ==
    /\ At(t, "performTransition", "didMakeInactive")
    /\ Return(t, NoExc)
    /\ UNCHANGED <<ctlVars, accVars, tranVars, tbVars, hsVars>>
    /\ History(t)

performTransition_didMakeInactive(t) ==
    /\ At(t, "performTransition", "didMakeInactive")
    /\ didMakeInactive(Top(t).old)
    /\ Return(t, NoExc)
    /\ UNCHANGED <<ctlVars, accVars, tranVars, tbVars>>
    /\ Calls(t, IF Top(t).old # NULL
                THEN <<Ev("didMakeInactive", Top(t).old)>> ELSE <<>>)

\* Fault: access stays blocked when the change is over.
NoUnblock(t) ==
    /\ Return(t, exc[t])
    /\ UNCHANGED <<ctlVars, accVars, tranVars, tbVars, hsVars>>

\* ~AccessUnblocker, and the return of the function that declared it.
AccessUnblocker_dtor(t) ==
    /\ StateMutexFree
    /\ state_accessIsUnblocked' = TRUE
    /\ Return(t, exc[t])
    /\ UNCHANGED <<ctlVars, state_numUnreturnedAccessCalls, tranVars, tbVars, hsVars>>

\* Fault: the new active controller is not told.
NoDidMakeActive(t) ==
    /\ At(t, "performActiveControllerChange", "didMakeActive")
    /\ AccessUnblocker_dtor(t)
    /\ History(t)

\* Fault: a didMakeActive that throws undoes the store of the active
\* controller.
UndoOnThrow(t) ==
    /\ At(t, "performActiveControllerChange", "didMakeActive")
    /\ IF Throwing(t) \/ Top(t).c = NULL
       THEN AccessUnblocker_dtor(t)
       ELSE /\ didMakeActive(t, Top(t).c)
            /\ Goto(t, "unblock")
            /\ state_activeController' =
                  IF exc'[t].kind # "none" THEN NULL ELSE state_activeController
            /\ UNCHANGED <<state_currentController, accVars, tranVars, tbVars>>
    /\ Calls(t, IF Throwing(t) \/ Top(t).c = NULL THEN <<>>
                ELSE <<Ev("didMakeActive", Top(t).c)>> \o Throws(t, "didMakeActive_throws"))

\* performActiveControllerChange after performTransition.
performActiveControllerChange(t) ==
    /\ At(t, "performActiveControllerChange", "didMakeActive")
    /\ IF Throwing(t) \/ Top(t).c = NULL
       THEN AccessUnblocker_dtor(t)
       ELSE /\ didMakeActive(t, Top(t).c)
            /\ Goto(t, "unblock")
            /\ UNCHANGED <<ctlVars, accVars, tranVars, tbVars>>
    /\ Calls(t, IF Throwing(t) \/ Top(t).c = NULL THEN <<>>
                ELSE <<Ev("didMakeActive", Top(t).c)>> \o Throws(t, "didMakeActive_throws"))

performActiveControllerChange_end(t) ==
    /\ At(t, "performActiveControllerChange", "unblock")
    /\ AccessUnblocker_dtor(t)
    /\ History(t)

\* ------------------------------------- performCurrentControllerChange
performCurrentControllerChange(t) ==
    /\ At(t, "performCurrentControllerChange", "start")
    /\ LET oldCurrentController == state_currentController
           oldAccessList == IF oldCurrentController # NULL
                            THEN getControllersList(oldCurrentController) ELSE <<>>
       IN  Replace(t, [Top(t) EXCEPT !.old = oldCurrentController,
                                        !.lst = oldAccessList, !.pc = "willRemove"])
    /\ state_concurrentActiveControllerChangeAllowed' = TRUE
    /\ UNCHANGED <<ctlVars, accVars, state_transitionInProgress, state_transitionThread,
                   tbVars, hsVars, exc>>
    /\ History(t)

\* Fault: the catch block rethrows without the didCancelRemove loop.
CatchWithoutCancel(t) ==
    /\ state_concurrentActiveControllerChangeAllowed' = TRUE
    /\ Replace(t, [Top(t) EXCEPT !.e = exc[t], !.lst = <<>>, !.pc = "didCancelRemove"])
    /\ exc' = [exc EXCEPT ![t] = NoExc]

\* The catch block's entry: the exception is held while didCancelRemove runs.
Catch(t) ==
    /\ state_concurrentActiveControllerChangeAllowed' = TRUE
    /\ Replace(t, [Top(t) EXCEPT !.e = exc[t], !.lst = Top(t).noti,
                                 !.pc = "didCancelRemove"])
    /\ exc' = [exc EXCEPT ![t] = NoExc]

\* One turn of the willRemove loop, or the call of performTransition after it.
\* The willRemove of an HSerial is the empty default.
performCurrentControllerChange_willRemove(t) ==
    /\ At(t, "performCurrentControllerChange", "willRemove")
    /\ LET f == Top(t)
       IN  IF f.lst = <<>>
           THEN /\ state_concurrentActiveControllerChangeAllowed' = FALSE
                /\ Call(t, [f EXCEPT !.pc = "performed"],
                         performTransitionFrames(f.c, TRUE))
           ELSE /\ UNCHANGED state_concurrentActiveControllerChangeAllowed
                /\ IF Head(f.lst) \in HSerials
                   THEN Replace(t, [f EXCEPT !.lst = Tail(f.lst),
                                             !.noti = Append(f.noti, Head(f.lst))])
                   ELSE Call(t, [f EXCEPT !.pc = "notified"],
                              <<Frame("willRemove", "choose", Head(f.lst))>>)
    /\ UNCHANGED <<ctlVars, accVars, state_transitionInProgress, state_transitionThread,
                   tbVars, hsVars, exc>>
    /\ Calls(t, IF Top(t).lst = <<>> THEN <<>>
                ELSE <<Ev("willRemove", Head(Top(t).lst))>>)

\* A user controller's willRemove has returned or thrown.
performCurrentControllerChange_notified(t) ==
    /\ At(t, "performCurrentControllerChange", "notified")
    /\ LET f == Top(t)
       IN  IF Throwing(t)
           THEN Catch(t)
           ELSE /\ Replace(t, [f EXCEPT !.lst = Tail(f.lst),
                                        !.noti = Append(f.noti, Head(f.lst)),
                                        !.pc = "willRemove"])
                /\ UNCHANGED <<state_concurrentActiveControllerChangeAllowed, exc>>
    /\ UNCHANGED <<ctlVars, accVars, state_transitionInProgress, state_transitionThread,
                   tbVars, hsVars>>
    /\ History(t)

\* Fault: didMakeActive is called before the didAdd loop.
DidMakeActiveBeforeDidAdd(t) ==
    /\ At(t, "performCurrentControllerChange", "performed")
    /\ IF Throwing(t)
       THEN /\ Catch(t)
            /\ UNCHANGED hsVars
       ELSE /\ IF Top(t).c # NULL
               THEN didMakeActive(t, Top(t).c)
               ELSE UNCHANGED <<hsVars, exc>>
            /\ Goto(t, "unblock")
            /\ UNCHANGED state_concurrentActiveControllerChangeAllowed
    /\ UNCHANGED <<ctlVars, accVars, state_transitionInProgress, state_transitionThread,
                   tbVars>>
    /\ Calls(t, IF Throwing(t) THEN <<>>
                ELSE LET oldAccessList == IF Top(t).old # NULL
                                          THEN getControllersList(Top(t).old) ELSE <<>>
                         newAccessList == IF Top(t).c # NULL
                                          THEN Reverse(getControllersList(Top(t).c))
                                          ELSE <<>>
                     IN  Each("didRemove", oldAccessList)
                         \o (IF Top(t).c # NULL
                             THEN <<Ev("didMakeActive", Top(t).c)>>
                                  \o Throws(t, "didMakeActive_throws")
                             ELSE <<>>)
                         \o Each("didAdd", newAccessList))

\* performTransition has returned or thrown: the catch block, or the didRemove
\* of the old access list, the didAdd of the new one in reverse (both empty
\* for every controller here) and the new current controller's didMakeActive.
performCurrentControllerChange_performed(t) ==
    /\ At(t, "performCurrentControllerChange", "performed")
    /\ IF Throwing(t)
       THEN /\ Catch(t)
            /\ UNCHANGED hsVars
       ELSE /\ IF Top(t).c # NULL
               THEN didMakeActive(t, Top(t).c)
               ELSE UNCHANGED <<hsVars, exc>>
            /\ Goto(t, "unblock")
            /\ UNCHANGED state_concurrentActiveControllerChangeAllowed
    /\ UNCHANGED <<ctlVars, accVars, state_transitionInProgress, state_transitionThread,
                   tbVars>>
    /\ Calls(t, IF Throwing(t) THEN <<>>
                ELSE LET oldAccessList == IF Top(t).old # NULL
                                          THEN getControllersList(Top(t).old) ELSE <<>>
                         newAccessList == IF Top(t).c # NULL
                                          THEN Reverse(getControllersList(Top(t).c))
                                          ELSE <<>>
                     IN  Each("didRemove", oldAccessList)
                         \o Each("didAdd", newAccessList)
                         \o (IF Top(t).c # NULL
                             THEN <<Ev("didMakeActive", Top(t).c)>>
                                  \o Throws(t, "didMakeActive_throws")
                             ELSE <<>>))

\* One turn of the didCancelRemove loop over notifiedList, or the rethrow.
performCurrentControllerChange_didCancelRemove(t) ==
    /\ At(t, "performCurrentControllerChange", "didCancelRemove")
    /\ LET f == Top(t)
       IN  IF f.lst = <<>>
           THEN /\ Replace(t, [f EXCEPT !.pc = "unblock", !.e = NoExc])
                /\ exc' = [exc EXCEPT ![t] = f.e]
           ELSE /\ IF Head(f.lst) \in HSerials
                   THEN Replace(t, [f EXCEPT !.lst = Tail(f.lst)])
                   ELSE Call(t, [f EXCEPT !.lst = Tail(f.lst)],
                              <<Frame("didCancelRemove", "choose", Head(f.lst))>>)
                /\ UNCHANGED exc
    /\ UNCHANGED <<ctlVars, accVars, tranVars, tbVars, hsVars>>
    /\ Calls(t, IF Top(t).lst = <<>> THEN <<>>
                ELSE <<Ev("didCancelRemove", Head(Top(t).lst))>>)

performCurrentControllerChange_end(t) ==
    /\ At(t, "performCurrentControllerChange", "unblock")
    /\ AccessUnblocker_dtor(t)
    /\ History(t)

\* ------------------------------------- callbacks of the user controller
\* What P's willRemove and didCancelRemove may do with the access list: make
\* the HSerial it delegates to or itself active, or the HSerial inactive.
DelegateUse(x) ==
    IF x \in Callers
    THEN {Frame("HSerial::makeActive", "start", h) :
             h \in {d \in HSerials : hasAsDelegateOrSubdelegate(x, d)}}
         \cup {Frame("HSerial::makeInactive", "start", h) :
                  h \in {d \in HSerials : hasAsDelegateOrSubdelegate(x, d)}}
         \cup {Frame("makeActive", "start", x)}
    ELSE {}

willRemove(t) ==
    /\ At(t, "willRemove", "choose")
    /\ \/ Return(t, NoExc)
       \/ Return(t, ControllerRefuses(Top(t).c, "willRemove"))
       \/ /\ \E f \in DelegateUse(Top(t).c) : Call(t, [Top(t) EXCEPT !.pc = "used"], <<f>>)
          /\ UNCHANGED exc
    /\ UNCHANGED <<ctlVars, accVars, tranVars, tbVars, hsVars>>
    /\ Calls(t, Throws(t, "willRemove_throws"))

\* After the use of the delegate: accept or refuse; an exception of the use
\* is passed on or swallowed.
willRemove_used(t) ==
    /\ At(t, "willRemove", "used")
    /\ IF Throwing(t)
       THEN Return(t, exc[t]) \/ Return(t, NoExc)
       ELSE Return(t, NoExc) \/ Return(t, ControllerRefuses(Top(t).c, "willRemove"))
    /\ UNCHANGED <<ctlVars, accVars, tranVars, tbVars, hsVars>>
    /\ Calls(t, Throws(t, "willRemove_throws"))

didCancelRemove(t) ==
    /\ At(t, "didCancelRemove", "choose")
    /\ \/ Return(t, NoExc)
       \/ /\ \E f \in DelegateUse(Top(t).c) : Call(t, [Top(t) EXCEPT !.pc = "used"], <<f>>)
          /\ UNCHANGED exc
    /\ UNCHANGED <<ctlVars, accVars, tranVars, tbVars, hsVars>>
    /\ History(t)

\* didCancelRemove is noexcept: it has to swallow what the use threw.
didCancelRemove_used(t) ==
    /\ At(t, "didCancelRemove", "used")
    /\ Return(t, NoExc)
    /\ UNCHANGED <<ctlVars, accVars, tranVars, tbVars, hsVars>>
    /\ History(t)

\* -------------------------------------------------------------- HSerial
HSerialFunctions == {"HSerial::makeActive", "HSerial::makeLockedActive",
                     "HSerial::makeInactive", "HSerial::unlockActive",
                     "HSerial::removeFromAccess"}

\* AccessManagementGuard's constructor and the function's first statements.
AccessManagementGuard_ctor(t) ==
    /\ stk[t] # <<>>
    /\ Top(t).fn \in HSerialFunctions
    /\ Top(t).pc = "start"
    /\ LET c == Top(t).c
           fn == Top(t).fn
           leave == [Top(t) EXCEPT !.pc = "am_dtor"]
       IN  /\ am_callThread[c] = NoThread
           /\ am_callThread' = [am_callThread EXCEPT ![c] = t]
           /\ setIsLockedActive' =
                 IF fn \in {"HSerial::makeActive", "HSerial::makeLockedActive"}
                 THEN [setIsLockedActive EXCEPT ![c] = (fn = "HSerial::makeLockedActive")]
                 ELSE setIsLockedActive
           /\ CASE fn = "HSerial::makeActive" ->
                      Call(t, leave, <<Frame("makeActive", "start", c)>>)
                [] fn = "HSerial::makeInactive" ->
                      Call(t, leave, <<Frame("makeInactive", "start", c)>>)
                [] fn = "HSerial::removeFromAccess" ->
                      Call(t, leave, <<Frame("removeFromAccess", "start", c)>>)
                [] fn = "HSerial::makeLockedActive" -> Goto(t, "pre")
                [] fn = "HSerial::unlockActive" -> Goto(t, "unlock")
    /\ UNCHANGED <<ctlVars, accVars, tranVars, tbVars, isLocked, _isLockedActive,
                   isLockedMutex, exc>>
    /\ History(t)

AccessManagementGuard_dtor(t) ==
    /\ stk[t] # <<>>
    /\ Top(t).pc = "am_dtor"
    /\ am_callThread' = [am_callThread EXCEPT ![Top(t).c] = NoThread]
    /\ Return(t, exc[t])
    /\ UNCHANGED <<ctlVars, accVars, tranVars, tbVars, isLocked, _isLockedActive,
                   setIsLockedActive, isLockedMutex>>
    /\ History(t)

\* makeLockedActive, "Pre-Request" and the request.
HSerial_makeLockedActive(t) ==
    /\ At(t, "HSerial::makeLockedActive", "pre")
    /\ LET c == Top(t).c
       IN  /\ isLockedMutex[c] = NoThread
           /\ isLocked' = [isLocked EXCEPT ![c] = TRUE]
           /\ Call(t, [Top(t) EXCEPT !.pc = "requested"], <<Frame("makeActive", "start", c)>>)
    /\ UNCHANGED <<ctlVars, accVars, tranVars, tbVars, _isLockedActive, setIsLockedActive,
                   am_callThread, isLockedMutex, exc>>
    /\ History(t)

\* Fault: "Post-Request" runs after a failed request too.
PostRequestAlways(t) ==
    /\ At(t, "HSerial::makeLockedActive", "requested")
    /\ LET c == Top(t).c
       IN  /\ isLockedMutex[c] = NoThread
           /\ _isLockedActive' = [_isLockedActive EXCEPT ![c] = TRUE]
           /\ Goto(t, IF Throwing(t) /\ c # state_activeController
                      THEN "rollback" ELSE "am_dtor")
    /\ UNCHANGED <<ctlVars, accVars, tranVars, tbVars, isLocked, setIsLockedActive,
                   am_callThread, isLockedMutex, exc>>
    /\ History(t)

\* makeLockedActive, "Post-Request", or the catch block's isActive().
HSerial_makeLockedActive_requested(t) ==
    /\ At(t, "HSerial::makeLockedActive", "requested")
    /\ LET c == Top(t).c
       IN  IF Throwing(t)
           THEN /\ Goto(t, IF c # state_activeController THEN "rollback" ELSE "am_dtor")
                /\ UNCHANGED _isLockedActive
           ELSE /\ isLockedMutex[c] = NoThread
                /\ _isLockedActive' = [_isLockedActive EXCEPT ![c] = TRUE]
                /\ Goto(t, "am_dtor")
    /\ UNCHANGED <<ctlVars, accVars, tranVars, tbVars, isLocked, setIsLockedActive,
                   am_callThread, isLockedMutex, exc>>
    /\ History(t)

\* Fault: a failed makeLockedActive leaves isLocked set.
NoRollback(t) ==
    /\ At(t, "HSerial::makeLockedActive", "rollback")
    /\ Goto(t, "am_dtor")
    /\ UNCHANGED <<ctlVars, accVars, tranVars, tbVars, hsVars, exc>>
    /\ History(t)

\* makeLockedActive, "Request Failure".
HSerial_makeLockedActive_rollback(t) ==
    /\ At(t, "HSerial::makeLockedActive", "rollback")
    /\ isLockedMutex[Top(t).c] = NoThread
    /\ isLocked' = [isLocked EXCEPT ![Top(t).c] = FALSE]
    /\ Goto(t, "am_dtor")
    /\ UNCHANGED <<ctlVars, accVars, tranVars, tbVars, _isLockedActive, setIsLockedActive,
                   am_callThread, isLockedMutex, exc>>
    /\ History(t)

HSerial_unlockActive(t) ==
    /\ At(t, "HSerial::unlockActive", "unlock")
    /\ isLockedMutex[Top(t).c] = NoThread
    /\ isLocked' = [isLocked EXCEPT ![Top(t).c] = FALSE]
    /\ _isLockedActive' = [_isLockedActive EXCEPT ![Top(t).c] = FALSE]
    /\ Goto(t, "am_dtor")
    /\ UNCHANGED <<ctlVars, accVars, tranVars, tbVars, setIsLockedActive,
                   am_callThread, isLockedMutex, exc>>
    /\ History(t)

\* ----------------------------------------------------------------- Next
Next ==
    \E t \in Threads :
        \/ Invoke(t)
        \/ Finish(t)
        \/ AccessGuard_ctor(t)
        \/ AccessGuard_dtor(t)
        \/ makeActive(t)
        \/ makeInactive(t)
        \/ removeFromAccess(t)
        \/ ConcurrentChangeReturn(t)
        \/ TransitionBlocker_ctor(t)
        \/ TransitionBlocker_dtor(t)
        \/ TransitionBlocker_ready(t)
        \/ HSerial_willMakeInactive(t)
        \/ HSerial_willMakeInactive_lock(t)
        \/ willMakeInactive(t)
        \/ blockAccessCalls(t)
        \/ waitForAllAccessCallsToReturn(t)
        \/ performTransition(t)
        \/ performTransition_current(t)
        \/ performTransition_didMakeInactive(t)
        \/ performActiveControllerChange(t)
        \/ performActiveControllerChange_end(t)
        \/ performCurrentControllerChange(t)
        \/ performCurrentControllerChange_willRemove(t)
        \/ performCurrentControllerChange_notified(t)
        \/ performCurrentControllerChange_performed(t)
        \/ performCurrentControllerChange_didCancelRemove(t)
        \/ performCurrentControllerChange_end(t)
        \/ willRemove(t)
        \/ willRemove_used(t)
        \/ didCancelRemove(t)
        \/ didCancelRemove_used(t)
        \/ AccessManagementGuard_ctor(t)
        \/ AccessManagementGuard_dtor(t)
        \/ HSerial_makeLockedActive(t)
        \/ HSerial_makeLockedActive_requested(t)
        \/ HSerial_makeLockedActive_rollback(t)
        \/ HSerial_unlockActive(t)

Spec == Init /\ [][Next]_vars

\* An idle thread calls a public function of the user-written controller P.
InvokeController(t) ==
    /\ stk[t] = <<>>
    /\ \E f \in {Frame("access", "start", "P"),
                 Frame("makeActive", "start", "P"),
                 Frame("makeInactive", "start", "P"),
                 Frame("removeFromAccess", "start", "P")} :
          stk' = [stk EXCEPT ![t] = <<f>>]
    /\ UNCHANGED <<ctlVars, accVars, tranVars, tbVars, hsVars, exc>>
    /\ History(t)

\* The user-written controller P alone is called: its access calls and its
\* transitions, with the callbacks of the controllers that they replace.
NextController ==
    \E t \in Threads :
        \/ InvokeController(t)
        \/ Finish(t)
        \/ AccessGuard_ctor(t)
        \/ AccessGuard_dtor(t)
        \/ makeActive(t)
        \/ makeInactive(t)
        \/ removeFromAccess(t)
        \/ ConcurrentChangeReturn(t)
        \/ TransitionBlocker_ctor(t)
        \/ TransitionBlocker_dtor(t)
        \/ TransitionBlocker_ready(t)
        \/ HSerial_willMakeInactive(t)
        \/ HSerial_willMakeInactive_lock(t)
        \/ willMakeInactive(t)
        \/ blockAccessCalls(t)
        \/ waitForAllAccessCallsToReturn(t)
        \/ performTransition(t)
        \/ performTransition_current(t)
        \/ performTransition_didMakeInactive(t)
        \/ performActiveControllerChange(t)
        \/ performActiveControllerChange_end(t)
        \/ performCurrentControllerChange(t)
        \/ performCurrentControllerChange_willRemove(t)
        \/ performCurrentControllerChange_notified(t)
        \/ performCurrentControllerChange_performed(t)
        \/ performCurrentControllerChange_didCancelRemove(t)
        \/ performCurrentControllerChange_end(t)
        \/ willRemove(t)
        \/ willRemove_used(t)
        \/ didCancelRemove(t)
        \/ didCancelRemove_used(t)
        \/ AccessManagementGuard_ctor(t)
        \/ AccessManagementGuard_dtor(t)

SpecController == Init /\ [][NextController]_vars

\* An idle thread calls a public function of the HSerial D, a subdelegate of
\* P, or makeActive, makeInactive or an access function of P.
InvokeDelegate(t) ==
    /\ stk[t] = <<>>
    /\ \E f \in {Frame("access", "start", "D"),
                 Frame("HSerial::makeActive", "start", "D"),
                 Frame("HSerial::makeLockedActive", "start", "D"),
                 Frame("HSerial::makeInactive", "start", "D"),
                 Frame("HSerial::unlockActive", "start", "D"),
                 Frame("HSerial::removeFromAccess", "start", "D"),
                 Frame("makeActive", "start", "P"),
                 Frame("makeInactive", "start", "P"),
                 Frame("access", "start", "P")} :
          stk' = [stk EXCEPT ![t] = <<f>>]
    /\ UNCHANGED <<ctlVars, accVars, tranVars, tbVars, hsVars, exc>>
    /\ History(t)

\* The lockable delegate D and its root P are called: active controller
\* changes inside one access list, locked and unlocked.
NextDelegate ==
    \E t \in Threads :
        \/ InvokeDelegate(t)
        \/ Finish(t)
        \/ AccessGuard_ctor(t)
        \/ AccessGuard_dtor(t)
        \/ makeActive(t)
        \/ makeInactive(t)
        \/ removeFromAccess(t)
        \/ TransitionBlocker_ctor(t)
        \/ TransitionBlocker_dtor(t)
        \/ TransitionBlocker_ready(t)
        \/ HSerial_willMakeInactive(t)
        \/ HSerial_willMakeInactive_lock(t)
        \/ willMakeInactive(t)
        \/ blockAccessCalls(t)
        \/ waitForAllAccessCallsToReturn(t)
        \/ performTransition(t)
        \/ performTransition_current(t)
        \/ performTransition_didMakeInactive(t)
        \/ performActiveControllerChange(t)
        \/ performActiveControllerChange_end(t)
        \/ performCurrentControllerChange(t)
        \/ performCurrentControllerChange_willRemove(t)
        \/ performCurrentControllerChange_performed(t)
        \/ performCurrentControllerChange_didCancelRemove(t)
        \/ performCurrentControllerChange_end(t)
        \/ AccessManagementGuard_ctor(t)
        \/ AccessManagementGuard_dtor(t)
        \/ HSerial_makeLockedActive(t)
        \/ HSerial_makeLockedActive_requested(t)
        \/ HSerial_makeLockedActive_rollback(t)
        \/ HSerial_unlockActive(t)

SpecDelegate == Init /\ [][NextDelegate]_vars

\* An idle thread calls makeActive, makeLockedActive or unlockActive of the
\* HSerial A, or makeActive of P or of the HSerial D.
InvokeLockable(t) ==
    /\ stk[t] = <<>>
    /\ \E f \in {Frame("HSerial::makeActive", "start", "A"),
                 Frame("HSerial::makeLockedActive", "start", "A"),
                 Frame("HSerial::unlockActive", "start", "A"),
                 Frame("makeActive", "start", "P"),
                 Frame("HSerial::makeActive", "start", "D")} :
          stk' = [stk EXCEPT ![t] = <<f>>]
    /\ UNCHANGED <<ctlVars, accVars, tranVars, tbVars, hsVars, exc>>
    /\ History(t)

\* The lockable controller A competes for the port with P and with the
\* delegate D: current controller changes between access lists.
NextLockable ==
    \E t \in Threads :
        \/ InvokeLockable(t)
        \/ Finish(t)
        \/ makeActive(t)
        \/ makeInactive(t)
        \/ ConcurrentChangeReturn(t)
        \/ TransitionBlocker_ctor(t)
        \/ TransitionBlocker_dtor(t)
        \/ TransitionBlocker_ready(t)
        \/ HSerial_willMakeInactive(t)
        \/ HSerial_willMakeInactive_lock(t)
        \/ willMakeInactive(t)
        \/ blockAccessCalls(t)
        \/ waitForAllAccessCallsToReturn(t)
        \/ performTransition(t)
        \/ performTransition_current(t)
        \/ performTransition_didMakeInactive(t)
        \/ performActiveControllerChange(t)
        \/ performActiveControllerChange_end(t)
        \/ performCurrentControllerChange(t)
        \/ performCurrentControllerChange_willRemove(t)
        \/ performCurrentControllerChange_notified(t)
        \/ performCurrentControllerChange_performed(t)
        \/ performCurrentControllerChange_didCancelRemove(t)
        \/ performCurrentControllerChange_end(t)
        \/ willRemove(t)
        \/ willRemove_used(t)
        \/ didCancelRemove(t)
        \/ didCancelRemove_used(t)
        \/ AccessManagementGuard_ctor(t)
        \/ AccessManagementGuard_dtor(t)
        \/ HSerial_makeLockedActive(t)
        \/ HSerial_makeLockedActive_requested(t)
        \/ HSerial_makeLockedActive_rollback(t)
        \/ HSerial_unlockActive(t)

SpecLockable == Init /\ [][NextLockable]_vars

\* The user-written controller P alone, its transition utilities called in
\* its willMakeInactive and from outside of the callbacks.
NextUtilities ==
    \E t \in Threads :
        \/ InvokeUser(t)
        \/ Finish(t)
        \/ AccessGuard_ctor(t)
        \/ AccessGuard_dtor(t)
        \/ makeActive(t)
        \/ makeInactive(t)
        \/ TransitionBlocker_ctor(t)
        \/ TransitionBlocker_dtor(t)
        \/ TransitionBlocker_ready(t)
        \/ willMakeInactive(t)
        \/ willMakeInactive_unblocks(t)
        \/ blockAccessCalls(t)
        \/ unblockAccessCalls(t)
        \/ waitForAllAccessCallsToReturn(t)
        \/ performTransition(t)
        \/ performTransition_current(t)
        \/ performTransition_didMakeInactive(t)
        \/ performActiveControllerChange(t)
        \/ performActiveControllerChange_end(t)
        \/ performCurrentControllerChange(t)
        \/ performCurrentControllerChange_willRemove(t)
        \/ performCurrentControllerChange_performed(t)
        \/ performCurrentControllerChange_end(t)

\* ------------------------------------------------------------ round trip
\* One thread calls makeLockedActive(), unlockActive() and makeInactive() of
\* the HSerial L in a row, going on only after a normal return; no other
\* thread runs.
RoundTrip(t) ==
    /\ stk[t] # <<>>
    /\ Top(t).fn = "roundTrip"
    /\ LET L == Top(t).c
           next == CASE Top(t).pc = "makeLockedActive" -> "unlockActive"
                     [] Top(t).pc = "unlockActive" -> "makeInactive"
                     [] Top(t).pc = "makeInactive" -> "returned"
                     [] OTHER -> "returned"
       IN  IF Throwing(t) \/ Top(t).pc = "returned"
           THEN Return(t, exc[t])
           ELSE /\ Call(t, [Top(t) EXCEPT !.pc = next],
                         <<Frame("HSerial::" \o Top(t).pc, "start", L)>>)
                /\ UNCHANGED exc
    /\ UNCHANGED <<ctlVars, accVars, tranVars, tbVars, hsVars>>
    /\ History(t)

\* The states the round trip may start in: no controller in use yet, or a
\* controller current with a member of its access list, or none, active; L
\* is not active and not locked; an HSerial that is active may be locked.
InitRoundTrip ==
    /\ Constructed
    /\ state_currentController \in Callers \cup {NULL}
    /\ state_activeController \in
          {NULL} \cup (IF state_currentController = NULL THEN {}
                       ELSE {c \in Controllers :
                               \/ c = state_currentController
                               \/ hasAsDelegateOrSubdelegate(state_currentController, c)})
    /\ state_numUnreturnedAccessCalls = 0
    /\ state_accessIsUnblocked = TRUE
    /\ state_transitionInProgress \in
          (IF state_currentController = NULL THEN BOOLEAN ELSE {FALSE})
    /\ state_concurrentActiveControllerChangeAllowed \in
          (IF state_currentController = NULL THEN BOOLEAN ELSE {FALSE})
    /\ state_transitionThread \in
          (IF state_currentController = NULL THEN {NoThread} ELSE Threads)
    /\ tb_nextNumber = 0
    /\ tb_readyNumber = 0
    /\ _isLockedActive \in [HSerials -> BOOLEAN]
    /\ isLocked \in [HSerials -> BOOLEAN]
    /\ \A h \in HSerials : _isLockedActive[h] => (isLocked[h] /\ h = state_activeController)
    /\ \A h \in HSerials : (h = state_activeController /\ isLocked[h]) => _isLockedActive[h]
    /\ setIsLockedActive = _isLockedActive
    /\ am_callThread = [c \in HSerials |-> NoThread]
    /\ isLockedMutex = [c \in HSerials |-> NoThread]
    /\ \E L \in HSerials :
          /\ L # state_activeController
          /\ ~isLocked[L]
          /\ stk = [t \in Threads |->
                      IF t = "t1" THEN <<Frame("roundTrip", "makeLockedActive", L)>>
                      ELSE <<>>]
    /\ exc = [t \in Threads |-> NoExc]
    /\ snap = [t \in Threads |-> IF t = "t1" THEN <<Obs>> ELSE <<>>]
    /\ swapped = [t \in Threads |-> FALSE]
    /\ log = [t \in Threads |-> <<>>]

NextRoundTrip ==
    \E t \in Threads :
        \/ RoundTrip(t)
        \/ makeActive(t)
        \/ makeInactive(t)
        \/ ConcurrentChangeReturn(t)
        \/ TransitionBlocker_ctor(t)
        \/ TransitionBlocker_dtor(t)
        \/ TransitionBlocker_ready(t)
        \/ HSerial_willMakeInactive(t)
        \/ HSerial_willMakeInactive_lock(t)
        \/ willMakeInactive(t)
        \/ blockAccessCalls(t)
        \/ waitForAllAccessCallsToReturn(t)
        \/ performTransition(t)
        \/ performTransition_current(t)
        \/ performTransition_didMakeInactive(t)
        \/ performActiveControllerChange(t)
        \/ performActiveControllerChange_end(t)
        \/ performCurrentControllerChange(t)
        \/ performCurrentControllerChange_willRemove(t)
        \/ performCurrentControllerChange_notified(t)
        \/ performCurrentControllerChange_performed(t)
        \/ performCurrentControllerChange_didCancelRemove(t)
        \/ performCurrentControllerChange_end(t)
        \/ willRemove(t)
        \/ willRemove_used(t)
        \/ didCancelRemove(t)
        \/ didCancelRemove_used(t)
        \/ AccessManagementGuard_ctor(t)
        \/ AccessManagementGuard_dtor(t)
        \/ HSerial_makeLockedActive(t)
        \/ HSerial_makeLockedActive_requested(t)
        \/ HSerial_makeLockedActive_rollback(t)
        \/ HSerial_unlockActive(t)

SpecRoundTrip == InitRoundTrip /\ [][NextRoundTrip]_vars

\* ---------------------------------------------------------- construction
hasAsFirstDegreeDelegate(self, otherController) ==
    /\ otherController # NULL
    /\ \E i \in 1..Len(registered[self]) : registered[self][i] = otherController

\* hasAsDelegateOrSubdelegate over the lists under construction.
RECURSIVE registeredAsDelegateOrSubdelegate(_, _)
registeredAsDelegateOrSubdelegate(self, otherController) ==
    /\ otherController # NULL
    /\ \E i \in 1..Len(registered[self]) :
          \/ registered[self][i] = otherController
          \/ registeredAsDelegateOrSubdelegate(registered[self][i], otherController)

\* Fault: only a delegate that delegates back in the first degree is rejected.
FirstDegreeCycleOnly(self, delegate) ==
    IF \/ delegate = NULL
       \/ self = delegate
       \/ hasAsFirstDegreeDelegate(self, delegate)
       \/ hasAsFirstDegreeDelegate(delegate, self)
    THEN /\ registration' = [self |-> self, delegate |-> delegate,
                             thrown |-> "invalid_argument"]
         /\ UNCHANGED registered
    ELSE /\ registration' = [self |-> self, delegate |-> delegate, thrown |-> "none"]
         /\ registered' = [registered EXCEPT ![self] = Append(@, delegate)]

registerDelegate(self, delegate) ==
    IF \/ delegate = NULL
       \/ self = delegate
       \/ hasAsFirstDegreeDelegate(self, delegate)
       \/ registeredAsDelegateOrSubdelegate(delegate, self)
    THEN /\ registration' = [self |-> self, delegate |-> delegate,
                             thrown |-> "invalid_argument"]
         /\ UNCHANGED registered
    ELSE /\ registration' = [self |-> self, delegate |-> delegate, thrown |-> "none"]
         /\ registered' = [registered EXCEPT ![self] = Append(@, delegate)]

\* A constructor registers a delegate; no controller is in use yet.
Register ==
    /\ \E self \in Controllers : \E delegate \in Controllers \cup {NULL} :
          registerDelegate(self, delegate)
    /\ UNCHANGED <<ctlVars, accVars, tranVars, tbVars, hsVars, stk, exc, snap, swapped, log,
                   devVars>>

\* Before construction: no controller has a delegate.
InitRegister ==
    /\ registered = [c \in Controllers |-> <<>>]
    /\ registration = NoRegistration
    /\ Attached
    /\ state_currentController = NULL
    /\ state_activeController = NULL
    /\ state_numUnreturnedAccessCalls = 0
    /\ state_accessIsUnblocked = TRUE
    /\ state_transitionInProgress \in BOOLEAN
    /\ state_concurrentActiveControllerChangeAllowed \in BOOLEAN
    /\ state_transitionThread = NoThread
    /\ tb_nextNumber = 0
    /\ tb_readyNumber = 0
    /\ isLocked \in [HSerials -> BOOLEAN]
    /\ _isLockedActive = [c \in HSerials |-> FALSE]
    /\ setIsLockedActive = [c \in HSerials |-> FALSE]
    /\ am_callThread = [c \in HSerials |-> NoThread]
    /\ isLockedMutex = [c \in HSerials |-> NoThread]
    /\ stk = [t \in Threads |-> <<>>]
    /\ exc = [t \in Threads |-> NoExc]
    /\ snap = [t \in Threads |-> <<>>]
    /\ swapped = [t \in Threads |-> FALSE]
    /\ log = [t \in Threads |-> <<>>]

SpecRegister == InitRegister /\ [][Register]_vars

\* The state after construction, or the state after P was made active and
\* inactive again by transitions on one of the threads.
InitUtilities ==
    \/ Init
    \/ /\ state_currentController = "P"
       /\ state_activeController = NULL
       /\ state_numUnreturnedAccessCalls = 0
       /\ state_accessIsUnblocked = TRUE
       /\ state_transitionInProgress = FALSE
       /\ state_concurrentActiveControllerChangeAllowed = FALSE
       /\ state_transitionThread \in Threads
       /\ tb_nextNumber = 0
       /\ tb_readyNumber = 0
       /\ isLocked \in [HSerials -> BOOLEAN]
       /\ _isLockedActive = [c \in HSerials |-> FALSE]
       /\ setIsLockedActive = [c \in HSerials |-> FALSE]
       /\ am_callThread = [c \in HSerials |-> NoThread]
       /\ isLockedMutex = [c \in HSerials |-> NoThread]
       /\ stk = [t \in Threads |-> <<>>]
       /\ exc = [t \in Threads |-> NoExc]
       /\ snap = [t \in Threads |-> <<>>]
       /\ swapped = [t \in Threads |-> FALSE]
       /\ log = [t \in Threads |-> <<>>]
       /\ Constructed

SpecUtilities == InitUtilities /\ [][NextUtilities]_vars

\* ------------------------------------------ access calls in a callback
\* The didMakeActive of the user-written controller calls an access function
\* (to apply its port settings, say) before it returns: access is still
\* blocked, the AccessUnblocker of the change has not run.
didMakeActive_access(t) ==
    /\ stk[t] # <<>>
    /\ Top(t).fn \in {"performActiveControllerChange", "performCurrentControllerChange"}
    /\ Top(t).pc = "unblock"
    /\ ~Throwing(t)
    /\ Top(t).c \in Controllers \ HSerials
    /\ state_activeController = Top(t).c
    /\ Call(t, Top(t), <<Frame("access", "start", Top(t).c)>>)
    /\ UNCHANGED <<ctlVars, accVars, tranVars, tbVars, hsVars, exc>>
    /\ History(t)

NextCallbackAccess ==
    \/ NextUtilities
    \/ \E t \in Threads : didMakeActive_access(t)

SpecCallbackAccess == InitUtilities /\ [][NextCallbackAccess]_vars

\* --------------------------------------- queued requests in a callback
\* What a callback of the user-written controller x may ask for although the
\* documentation does not allow it: in willRemove a current controller
\* change, by removeFromAccess() of x or by makeActive() of an HSerial
\* outside the current access list.
Requests(x) ==
    IF x \in Callers
    THEN {Frame("removeFromAccess", "start", x)}
         \cup {Frame("HSerial::makeActive", "start", h) :
                  h \in {d \in HSerials : ~isInAccessList(d)}}
    ELSE {}

willRemove_request(t) ==
    /\ At(t, "willRemove", "choose")
    /\ \E f \in Requests(Top(t).c) : Call(t, [Top(t) EXCEPT !.pc = "used"], <<f>>)
    /\ UNCHANGED <<ctlVars, accVars, tranVars, tbVars, hsVars, exc>>
    /\ History(t)

\* The willMakeInactive of the user-written controller calls its own
\* makeActive() or makeInactive() before the default implementation, in a
\* change during which concurrent active controller changes are not allowed.
willMakeInactive_request(t) ==
    /\ At(t, "willMakeInactive", "choose")
    /\ ~state_concurrentActiveControllerChangeAllowed
    /\ InFrame(t, {"performTransition"})
    /\ \E fn \in {"makeActive", "makeInactive"} :
          Call(t, [Top(t) EXCEPT !.pc = "block"], <<Frame(fn, "start", Top(t).c)>>)
    /\ UNCHANGED <<ctlVars, accVars, tranVars, tbVars, hsVars, exc>>
    /\ Calls(t, <<Ev("willMakeInactive", Top(t).c)>>)

\* The didMakeActive of the user-written controller calls its own
\* makeInactive() or removeFromAccess() before it returns.
didMakeActive_request(t) ==
    /\ stk[t] # <<>>
    /\ Top(t).fn \in {"performActiveControllerChange", "performCurrentControllerChange"}
    /\ Top(t).pc = "unblock"
    /\ ~Throwing(t)
    /\ Top(t).c \in Controllers \ HSerials
    /\ state_activeController = Top(t).c
    /\ ~state_concurrentActiveControllerChangeAllowed
    /\ \E fn \in {"makeInactive", "removeFromAccess"} :
          Call(t, Top(t), <<Frame(fn, "start", Top(t).c)>>)
    /\ UNCHANGED <<ctlVars, accVars, tranVars, tbVars, hsVars, exc>>
    /\ History(t)

\* An idle thread calls a transition function of the user-written controller P.
InvokeTransition(t) ==
    /\ stk[t] = <<>>
    /\ \E fn \in {"makeActive", "makeInactive", "removeFromAccess"} :
          /\ stk' = [stk EXCEPT ![t] = <<Frame(fn, "start", "P")>>]
    /\ UNCHANGED <<ctlVars, accVars, tranVars, tbVars, hsVars, exc>>
    /\ History(t)

NextNested ==
    \E t \in Threads :
        \/ InvokeTransition(t)
        \/ Finish(t)
        \/ makeActive(t)
        \/ makeInactive(t)
        \/ removeFromAccess(t)
        \/ ConcurrentChangeReturn(t)
        \/ TransitionBlocker_ctor(t)
        \/ TransitionBlocker_dtor(t)
        \/ TransitionBlocker_ready(t)
        \/ HSerial_willMakeInactive(t)
        \/ HSerial_willMakeInactive_lock(t)
        \/ willMakeInactive(t)
        \/ willMakeInactive_request(t)
        \/ blockAccessCalls(t)
        \/ waitForAllAccessCallsToReturn(t)
        \/ performTransition(t)
        \/ performTransition_current(t)
        \/ performTransition_didMakeInactive(t)
        \/ performActiveControllerChange(t)
        \/ performActiveControllerChange_end(t)
        \/ performCurrentControllerChange(t)
        \/ performCurrentControllerChange_willRemove(t)
        \/ performCurrentControllerChange_notified(t)
        \/ performCurrentControllerChange_performed(t)
        \/ performCurrentControllerChange_didCancelRemove(t)
        \/ performCurrentControllerChange_end(t)
        \/ willRemove(t)
        \/ willRemove_used(t)
        \/ willRemove_request(t)
        \/ didMakeActive_request(t)
        \/ didCancelRemove(t)
        \/ didCancelRemove_used(t)
        \/ AccessManagementGuard_ctor(t)
        \/ AccessManagementGuard_dtor(t)

SpecNested == Init /\ [][NextNested]_vars

\* ------------------------------------------------ the device's Access
\* How many Access objects the device may create in a run.
MaxAccess == 3

\* use_count() > 0: a controller, or the local shared_ptr of a getAccess call
\* in progress, shares the Access object.
Shared(n) ==
    /\ n # 0
    /\ \/ \E c \in Controllers : controller_access[c] = n
       \/ \E t \in Threads : stk[t] # <<>> /\ Top(t).fn = "getAccess" /\ Top(t).number = n

UnderConstruction(c) ==
    \E t \in Threads : stk[t] # <<>> /\ Top(t).fn = "getAccess" /\ Top(t).c = c

Unused == UNCHANGED <<ctlVars, accVars, tranVars, tbVars, hsVars, exc, snap, swapped, log,
                      registered, registration>>

\* A thread constructs a controller for the device: the constructor calls
\* getAccess().
HSerialController_ctor(t) ==
    /\ stk[t] = <<>>
    /\ \E c \in Controllers :
          /\ controller_access[c] = 0
          /\ ~UnderConstruction(c)
          /\ stk' = [stk EXCEPT ![t] = <<Frame("getAccess", "lock", c)>>]
    /\ UNCHANGED devVars
    /\ Unused

\* try { return std::shared_ptr<HSerialAccess>(access); }: the conversion
\* throws std::bad_weak_ptr when the weak pointer has expired. No mutex is held.
getAccess(t) ==
    /\ At(t, "getAccess", "lock")
    /\ IF Shared(device_access)
       THEN /\ controller_access' = [controller_access EXCEPT ![Top(t).c] = device_access]
            /\ stk' = [stk EXCEPT ![t] = <<>>]
       ELSE /\ Goto(t, "createShared")
            /\ UNCHANGED controller_access
    /\ UNCHANGED <<device_access, created>>
    /\ Unused

\* catch (const std::bad_weak_ptr&): a(HSerialAccess::createShared(deviceName))
getAccess_createShared(t) ==
    /\ At(t, "getAccess", "createShared")
    /\ created < MaxAccess
    /\ created' = created + 1
    /\ Replace(t, [Top(t) EXCEPT !.pc = "assign", !.number = created + 1])
    /\ UNCHANGED <<device_access, controller_access>>
    /\ Unused

\* access = a; return a; and the constructor stores what it was given. The
\* write to the weak pointer is not ordered with the other threads' reads and
\* writes of it: whichever comes later in the interleaving wins.
getAccess_assign(t) ==
    /\ At(t, "getAccess", "assign")
    /\ device_access' = Top(t).number
    /\ controller_access' = [controller_access EXCEPT ![Top(t).c] = Top(t).number]
    /\ stk' = [stk EXCEPT ![t] = <<>>]
    /\ UNCHANGED created
    /\ Unused

\* A controller is destroyed and with it its shared_ptr; the Access object
\* is destroyed with the last shared_ptr to it.
HSerialController_dtor(t) ==
    /\ stk[t] = <<>>
    /\ \E c \in Controllers :
          /\ controller_access[c] # 0
          /\ controller_access' = [controller_access EXCEPT ![c] = 0]
    /\ UNCHANGED <<device_access, created, stk>>
    /\ Unused

NextDevice ==
    \E t \in Threads :
        \/ HSerialController_ctor(t)
        \/ getAccess(t)
        \/ getAccess_createShared(t)
        \/ getAccess_assign(t)
        \/ HSerialController_dtor(t)

\* The device exists and no controller was constructed for it yet.
InitDevice ==
    /\ device_access = 0
    /\ controller_access = [c \in Controllers |-> 0]
    /\ created = 0
    /\ registered = [c \in Controllers |-> <<>>]
    /\ registration = NoRegistration
    /\ state_currentController = NULL
    /\ state_activeController = NULL
    /\ state_numUnreturnedAccessCalls = 0
    /\ state_accessIsUnblocked = TRUE
    /\ state_transitionInProgress = FALSE
    /\ state_concurrentActiveControllerChangeAllowed = FALSE
    /\ state_transitionThread = NoThread
    /\ tb_nextNumber = 0
    /\ tb_readyNumber = 0
    /\ isLocked = [c \in HSerials |-> FALSE]
    /\ _isLockedActive = [c \in HSerials |-> FALSE]
    /\ setIsLockedActive = [c \in HSerials |-> FALSE]
    /\ am_callThread = [c \in HSerials |-> NoThread]
    /\ isLockedMutex = [c \in HSerials |-> NoThread]
    /\ stk = [t \in Threads |-> <<>>]
    /\ exc = [t \in Threads |-> NoExc]
    /\ snap = [t \in Threads |-> <<>>]
    /\ swapped = [t \in Threads |-> FALSE]
    /\ log = [t \in Threads |-> <<>>]

SpecDevice == InitDevice /\ [][NextDevice]_vars

\* =========================================================== properties
Frames(t) == {stk[t][i] : i \in 1..Len(stk[t])}

\* The thread runs the driver call of an access function of c.
InAccessCall(t, c) == \E f \in Frames(t) : f.fn = "access" /\ f.pc = "serial" /\ f.c = c

\* The frames of functions that hold a TransitionBlocker, or wait in its
\* constructor.
TicketFrames(t) == {f \in Frames(t) : f.pc \in {"tb_wait", "tb_dtor", "tb_ready"}}
InTransitionBlocker(t) == \E f \in Frames(t) : f.pc = "tb_dtor"

\* C1: every unreturned access call belongs to the controller that is active
\* now, so the driver never runs for two controllers at once; the counter
\* counts exactly these calls.
C1_AccessOnlyByActive ==
    /\ \A t \in Threads : \A c \in Controllers :
          InAccessCall(t, c) => c = state_activeController
    /\ state_numUnreturnedAccessCalls =
          Cardinality({t \in Threads : \E c \in Controllers : InAccessCall(t, c)})

\* An access call is in the driver while a transition waits for it to return.
C1_Witness ==
    \E t, u \in Threads :
        /\ t # u
        /\ InAccessCall(u, state_activeController)
        /\ At(t, "willMakeInactive", "wait")
        /\ Top(t).c = state_activeController

\* C2: a step that writes the active or the current controller is taken with
\* no unreturned access call and leaves access blocked.
C2_CommitWhenDrained ==
    [][(\/ state_activeController' # state_activeController
        \/ state_currentController' # state_currentController)
       => /\ state_numUnreturnedAccessCalls = 0
          /\ state_numUnreturnedAccessCalls' = 0
          /\ ~state_accessIsUnblocked']_vars

\* The active controller was just replaced while a call of the old one waits
\* at the guard.
C2_Witness ==
    \E t, u \in Threads :
        /\ t # u
        /\ At(t, "performTransition", "didMakeInactive")
        /\ Top(t).old # NULL
        /\ Top(t).c # NULL
        /\ state_activeController = Top(t).c
        /\ At(u, "access", "start")
        /\ Top(u).c = Top(t).old

\* C3: outside performTransition's critical section the active controller is
\* none or a member of the access list of the current controller (so a
\* current controller exists whenever an active one does).
C3_ActiveInAccessList ==
    StateMutexFree =>
        \/ state_activeController = NULL
        \/ isInAccessList(state_activeController)

\* A delegate is active in the access list of its delegating controller.
C3_Witness ==
    /\ StateMutexFree
    /\ state_currentController = "P"
    /\ state_activeController = "D"

\* C4: queued transitions run in the order of their numbers: numbers are
\* unique, and a transition that has begun holds the ready number, so every
\* transition with a smaller number is over and every other one still waits.
C4_QueueIsFIFO ==
    \A t, u \in Threads : \A f \in TicketFrames(t) : \A g \in TicketFrames(u) :
        /\ f.number = g.number => t = u /\ f = g
        /\ tb_readyNumber <= f.number
        /\ f.number < tb_nextNumber
        /\ f.pc # "tb_wait" => f.number = tb_readyNumber

\* One thread performs its transition while the other waits with the next
\* number.
C4_Witness ==
    \E t, u \in Threads :
        /\ InFrame(t, {"performTransition"})
        /\ \E g \in TicketFrames(u) : g.pc = "tb_wait" /\ g.number = tb_readyNumber + 1

\* C5: at most one thread is between TransitionBlocker's constructor and its
\* destructor; it is the transition thread of a transition in progress; the
\* change functions, the concurrent branch included, run on that thread only.
C5_OneTransitionThread ==
    \A t \in Threads :
        /\ \A u \in Threads : InTransitionBlocker(t) /\ InTransitionBlocker(u) => t = u
        /\ InTransitionBlocker(t) =>
              state_transitionInProgress /\ state_transitionThread = t
        /\ InFrame(t, {"performTransition", "performActiveControllerChange",
                       "performCurrentControllerChange"}) => InTransitionBlocker(t)
        /\ InConcurrentChange(t) => InTransitionBlocker(t)

\* A concurrent active controller change runs inside the current controller
\* change of its thread while the other thread's access call waits at the
\* guard.
C5_Witness ==
    \E t, u \in Threads :
        /\ InConcurrentChange(t)
        /\ InFrame(t, {"performCurrentControllerChange"})
        /\ Top(t).fn = "performTransition"
        /\ At(u, "access", "start")
        /\ ~state_accessIsUnblocked

\* A public function of a controller other than an access function has
\* returned to its caller with ControllerRefuses.
RefusedCall(t) ==
    /\ stk[t] # <<>>
    /\ Top(t).fn = "done"
    /\ Top(t).pc = "ControllerRefuses"
    /\ Top(t).op # "access"

C7_FailsWithNotActiveController ==
    \A t \in Threads :
        /\ stk[t] # <<>>
        /\ Top(t).fn = "done"
        /\ Top(t).op = "access"
        /\ Top(t).pc # "none"
        => Top(t).e = NotActiveController(Top(t).c)

\* C8: access is unblocked whenever no transition is in progress, and every
\* TransitionBlocker, whatever its function throws, ends by clearing
\* state_transitionInProgress and then adding exactly one to tb_readyNumber,
\* with access unblocked.
C8_ScopedCleanup ==
    /\ []((~state_transitionInProgress \/ \A t \in Threads : ~InTransitionBlocker(t))
             => state_accessIsUnblocked)
    /\ [][\A t \in Threads :
            /\ (stk[t] # <<>> /\ Top(t).pc = "tb_dtor" /\ stk'[t] # stk[t])
                  => /\ ~state_transitionInProgress'
                     /\ state_accessIsUnblocked'
                     /\ Top(t)' = [Top(t) EXCEPT !.pc = "tb_ready"]
                     /\ exc'[t] = exc[t]
            /\ (stk[t] # <<>> /\ Top(t).pc = "tb_ready" /\ stk'[t] # stk[t])
                  => /\ tb_readyNumber' = Top(t).number + 1
                     /\ ~state_transitionInProgress'
                     /\ state_accessIsUnblocked']_vars
    /\ [][tb_readyNumber' # tb_readyNumber => tb_readyNumber' = tb_readyNumber + 1]_vars

\* A transition that performTransition ended with a logic error has cleared
\* state_transitionInProgress; the access call that was blocked can go on.
C8_Witness ==
    \E t, u \in Threads :
        /\ stk[t] # <<>>
        /\ Top(t).pc = "tb_ready"
        /\ exc[t] = logic_error("performTransition")
        /\ At(u, "access", "start")
        /\ state_accessIsUnblocked

\* The transition of t has passed the willMakeInactive of x, the controller
\* it replaces.
PastWillMakeInactive(t, x) ==
    \E i \in 1..Len(stk[t]) :
        /\ stk[t][i].fn = "performTransition"
        /\ stk[t][i].old = x
        /\ stk[t][i].c # x
        /\ \/ stk[t][i].pc \in {"store_current", "didMakeInactive"}
           \/ i = Len(stk[t]) /\ ~Throwing(t)

lockedActive(L) == state_activeController = L /\ isLocked[L] /\ _isLockedActive[L]

\* The thread is in the function fn of HSerial L.
InOwnCall(t, L, fns) ==
    /\ am_callThread[L] = t
    /\ \E f \in Frames(t) : f.fn \in fns /\ f.c = L

\* C10: when makeLockedActive is about to return normally its controller is
\* active and locked; and a controller that is active and locked stays so
\* except by a step of its own unlockActive, makeInactive or removeFromAccess.
C10_LockedUntilReleased ==
    /\ [](\A t \in Threads :
            (At(t, "HSerial::makeLockedActive", "am_dtor") /\ ~Throwing(t))
               => lockedActive(Top(t).c))
    /\ [][\A L \in HSerials :
            lockedActive(L) /\ ~lockedActive(L)'
            => \E t \in Threads :
                  /\ stk'[t] # stk[t]
                  /\ IF state_activeController' # L
                     THEN InOwnCall(t, L, {"HSerial::makeInactive",
                                           "HSerial::removeFromAccess"})
                     ELSE At(t, "HSerial::unlockActive", "unlock") /\ Top(t).c = L]_vars

\* makeLockedActive returns normally while a makeActive of another controller
\* waits in the queue.
C10_Witness ==
    \E t, u \in Threads :
        /\ At(t, "HSerial::makeLockedActive", "am_dtor")
        /\ ~Throwing(t)
        /\ stk[u] # <<>>
        /\ Top(u).pc = "tb_wait"
        /\ Top(u).c # Top(t).c

\* The events of the thread's call so far.
Logged(t) == {log[t][i] : i \in 1..Len(log[t])}

\* C11: the willMakeInactive of L lets a transition pass that an access
\* management call of L on this thread started, whatever isLocked holds; the
\* didMakeInactive of L leaves L inactive with isLocked and _isLockedActive
\* false; and a makeInactive of L that returns normally leaves L inactive and
\* not locked active, and not locked if it made L inactive.
C11_SelfInactivateUnlocks ==
    /\ [][\A t \in Threads : \A L \in HSerials :
            /\ At(t, "willMakeInactive", "check")
            /\ Top(t).c = L
            /\ am_callThread[L] = t
            /\ stk'[t] # stk[t]
            => /\ exc'[t] = NoExc
               /\ Top(t)'.fn = "willMakeInactive"
               /\ Top(t)'.pc = "block"]_vars
    /\ [][\A t \in Threads : \A L \in HSerials :
            /\ At(t, "performTransition", "didMakeInactive")
            /\ Top(t).old = L
            /\ stk'[t] # stk[t]
            => /\ state_activeController' # L
               /\ ~isLocked'[L]
               /\ ~_isLockedActive'[L]]_vars
    /\ [](\A t \in Threads :
            (At(t, "HSerial::makeInactive", "am_dtor") /\ ~Throwing(t))
               => /\ state_activeController # Top(t).c
                  /\ ~_isLockedActive[Top(t).c]
                  /\ Ev("didMakeInactive", Top(t).c) \in Logged(t) => ~isLocked[Top(t).c])

\* The makeInactive of a locked active controller has committed; its
\* didMakeInactive is next.
C11_Witness ==
    \E t \in Threads : \E L \in HSerials :
        /\ At(t, "performTransition", "didMakeInactive")
        /\ Top(t).old = L
        /\ InOwnCall(t, L, {"HSerial::makeInactive"})
        /\ isLocked[L]
        /\ _isLockedActive[L]
        /\ state_activeController = NULL

TimedOut(x) == ControllerRefuses(x, "access calls have not returned")

\* The queued function of the thread is about to end with the refusal of x,
\* whose wait for its access calls timed out.
EndsTimedOut(t, x) ==
    /\ stk[t] # <<>>
    /\ Top(t).pc = "tb_dtor"
    /\ exc[t] = TimedOut(x)

\* The call made an active controller change after the last refusal of a
\* willMakeInactive.
CommittedAfterRefusal(t) ==
    \E i, j \in 1..Len(log[t]) :
        /\ i < j
        /\ log[t][i].cb = "willMakeInactive_throws"
        /\ log[t][j].cb = "commit"
        /\ \A k \in (j + 1)..Len(log[t]) : log[t][k].cb # "willMakeInactive_throws"

C13_LockedActiveIsActive ==
    \A L \in HSerials :
        (isLockedMutex[L] = NoThread /\ _isLockedActive[L]) => state_activeController = L

\* L shows as locked active while the transition of another controller asks
\* it to become inactive and its own unlockActive is about to run.
C13_Witness ==
    \E t, u \in Threads : \E L \in HSerials :
        /\ t # u
        /\ _isLockedActive[L]
        /\ isLockedMutex[L] = NoThread
        /\ At(t, "willMakeInactive", "check")
        /\ Top(t).c = L
        /\ At(u, "HSerial::unlockActive", "unlock")
        /\ Top(u).c = L

\* How often the event occurs in the thread's call.
Count(t, e) == Cardinality({i \in 1..Len(log[t]) : log[t][i] = e})

\* The queued function of the thread has made its change, or failed to, and
\* is about to leave.
Ending(t) == stk[t] # <<>> /\ Top(t).pc = "tb_dtor"

\* C14: in a current controller change every controller gets willRemove at
\* most once; didRemove or didCancelRemove only after its willRemove, and
\* neither if its willRemove threw or was not called; when the change is over,
\* exactly one of the two if its willRemove returned normally: didRemove with
\* the current controller replaced, didCancelRemove with the change failed and
\* the current controller as it was.
C14_RemoveCallbacksPaired ==
    \A t \in Threads : \A c \in {log[t][i].c : i \in 1..Len(log[t])} \ {NULL} :
        LET called == Count(t, Ev("willRemove", c))
            threw == Count(t, Ev("willRemove_throws", c))
            removed == Count(t, Ev("didRemove", c))
            cancelled == Count(t, Ev("didCancelRemove", c))
        IN  /\ called <= 1
            /\ threw <= called
            /\ removed + cancelled <= called - threw
            /\ \A j \in 1..Len(log[t]) :
                  log[t][j] \in {Ev("didRemove", c), Ev("didCancelRemove", c)}
                     => \E i \in 1..(j - 1) : log[t][i] = Ev("willRemove", c)
            /\ Ending(t) =>
                  /\ removed + cancelled = called - threw
                  /\ removed = 1 =>
                        state_currentController =
                           (IF Top(t).fn = "makeActive" THEN Top(t).c ELSE NULL)
                  /\ cancelled = 1 =>
                        /\ Throwing(t)
                        /\ state_currentController = log[t][1].c

\* A change was refused by the willRemove of Q: P, notified before, got
\* didCancelRemove; Q, which threw, and D, not yet notified, got nothing.
C14_Witness ==
    \E t \in Threads :
        /\ Ending(t)
        /\ exc[t] = ControllerRefuses("Q", "willRemove")
        /\ Count(t, Ev("willRemove", "P")) = 1
        /\ Count(t, Ev("didCancelRemove", "P")) = 1
        /\ Count(t, Ev("willRemove_throws", "Q")) = 1
        /\ Count(t, Ev("didCancelRemove", "Q")) = 0
        /\ Count(t, Ev("willRemove", "D")) = 0
        /\ Count(t, Ev("didCancelRemove", "D")) = 0

\* The event k places after place i of the thread's record.
After(t, i, k) == IF i + k <= Len(log[t]) THEN log[t][i + k] ELSE Ev("nothing", NULL)

\* The place of the next willMakeInactive after place i, or the end.
NextWillMakeInactive(t, i) ==
    LET later == {j \in (i + 1)..Len(log[t]) : log[t][j].cb = "willMakeInactive"}
    IN  IF later = {} THEN Len(log[t]) + 1
        ELSE CHOOSE j \in later : \A k \in later : j <= k

\* C15: after each willMakeInactive of a controller c and before any further
\* willMakeInactive, c gets at most one of didMakeInactive and
\* didCancelMakeInactive, and none if its willMakeInactive threw;
\* didCancelMakeInactive comes at once, didMakeInactive after willMakeActive
\* and the store; once another transition has begun or the function is
\* about to leave, c has got exactly one of the two if willMakeInactive had
\* returned normally; and neither callback is made without a willMakeInactive.
C15_MakeInactiveCallbacksPaired ==
    \A t \in Threads : \A i \in 1..Len(log[t]) :
        LET c == log[t][i].c
            next == NextWillMakeInactive(t, i)
            answers == {j \in (i + 1)..(next - 1) :
                           log[t][j] \in {Ev("didMakeInactive", c),
                                          Ev("didCancelMakeInactive", c)}}
            threw == After(t, i, 1) = Ev("willMakeInactive_throws", c)
            store == IF After(t, i, 1).cb = "willMakeActive" THEN 2 ELSE 1
        IN  /\ log[t][i].cb = "willMakeInactive" =>
                  /\ Cardinality(answers) <= 1
                  /\ threw => answers = {}
                  /\ \A j \in answers :
                        IF log[t][j].cb = "didCancelMakeInactive"
                        THEN j = i + 1
                        ELSE After(t, i, store).cb = "commit" /\ j = i + store + 1
                  /\ (next <= Len(log[t]) \/ Ending(t)) =>
                        Cardinality(answers) = (IF threw THEN 0 ELSE 1)
            /\ log[t][i].cb \in {"didMakeInactive", "didCancelMakeInactive"} =>
                  \E j \in 1..(i - 1) :
                      /\ log[t][j] = Ev("willMakeInactive", c)
                      /\ NextWillMakeInactive(t, j) > i

\* In one call the willMakeInactive of P first returned without blocking
\* access, in a concurrent change that its willRemove asked for, and got
\* didCancelMakeInactive; then it was made inactive by the change itself and
\* got didMakeInactive.
C15_Witness ==
    \E t \in Threads :
        /\ Ending(t)
        /\ ~Throwing(t)
        /\ Count(t, Ev("willMakeInactive", "P")) = 2
        /\ Count(t, Ev("didCancelMakeInactive", "P")) = 1
        /\ Count(t, Ev("didMakeInactive", "P")) = 1

\* The callbacks among the events, without the marks of what the call found
\* and stored.
IsCallback(e) == e.cb \notin {"current", "active", "concurrent", "commit"}

\* The thread's queued makeActive is about to leave after an active
\* controller change: when it got the queue C1 was active and its own
\* controller, another one, was in the access list.
BasicSwap(t, C1) ==
    /\ Ending(t)
    /\ Top(t).fn = "makeActive"
    /\ log[t][1].c # NULL
    /\ log[t][2].c = C1
    /\ Top(t).c # C1
    /\ Top(t).c = log[t][1].c \/ hasAsDelegateOrSubdelegate(log[t][1].c, Top(t).c)

\* C16, as the specification states it: the callbacks of a basic swap are
\* C1.willMakeInactive, C1.didMakeInactive, C2.willMakeActive,
\* C2.didMakeActive, in this order.
C16_SwapOrderAsStated ==
    \A t \in Threads : \A C1 \in Controllers :
        (BasicSwap(t, C1) /\ ~Throwing(t)) =>
            /\ SelectSeq(log[t], IsCallback) =
                  <<Ev("willMakeInactive", C1), Ev("didMakeInactive", C1),
                    Ev("willMakeActive", Top(t).c), Ev("didMakeActive", Top(t).c)>>
            /\ state_activeController = Top(t).c

\* C16: a makeActive of C2 that finds C1 active and C2 in the access list
\* makes C1.willMakeInactive; if that throws or has not blocked and drained
\* access (didCancelMakeInactive), C1 stays active; otherwise the calls go on
\* with C2.willMakeActive, the store of C2 as active controller,
\* C1.didMakeInactive and C2.didMakeActive, in this order, and C2 is active
\* whether or not didMakeActive throws; there is no willRemove, didRemove or
\* didAdd.
C16_BasicSwapOrder ==
    \A t \in Threads : \A C1 \in Controllers :
        BasicSwap(t, C1) =>
            LET C2 == Top(t).c
                made == SubSeq(log[t], 3, Len(log[t]))
                swap == <<Ev("willMakeInactive", C1), Ev("willMakeActive", C2),
                          Ev("commit", C2), Ev("didMakeInactive", C1),
                          Ev("didMakeActive", C2)>>
            IN  \/ /\ made = swap
                   /\ ~Throwing(t)
                   /\ state_activeController = C2
                \/ /\ made = swap \o <<Ev("didMakeActive_throws", C2)>>
                   /\ exc[t] = runtime_error(C2)
                   /\ state_activeController = C2
                \/ /\ made = <<Ev("willMakeInactive", C1), Ev("willMakeInactive_throws", C1)>>
                   /\ Throwing(t)
                   /\ state_activeController = C1
                \/ /\ made = <<Ev("willMakeInactive", C1), Ev("didCancelMakeInactive", C1)>>
                   /\ exc[t] = logic_error("performTransition")
                   /\ state_activeController = C1

\* P has handed the port to D, the HSerial it delegates to through Q.
C16_Witness ==
    \E t \in Threads :
        /\ BasicSwap(t, "P")
        /\ Top(t).c = "D"
        /\ ~Throwing(t)
        /\ Len(log[t]) = 7
        /\ state_activeController = "D"

\* The thread's queued makeActive is about to leave after a current
\* controller change: when it got the queue C1, a controller without
\* delegates, was the current and the active controller, and its own
\* controller was another one.
CurrentChange(t, C1) ==
    /\ Ending(t)
    /\ Top(t).fn = "makeActive"
    /\ delegates[C1] = <<>>
    /\ log[t][1] = Ev("current", C1)
    /\ log[t][2] = Ev("active", C1)
    /\ Top(t).c # C1

\* C17: a makeActive of C3 that finds C1 current and active makes
\* C1.willRemove and then C1.willMakeInactive; if that throws, C1 gets
\* didCancelRemove and stays current and active; otherwise the calls go on
\* with C3.willMakeActive, the store of C3 as active and current controller,
\* C1.didMakeInactive, C1.didRemove, didAdd for the access list of C3 in
\* reverse and C3.didMakeActive, in this order.
C17_CurrentChangeOrder ==
    \A t \in Threads : \A C1 \in Controllers :
        CurrentChange(t, C1) =>
            LET C3 == Top(t).c
                made == SubSeq(log[t], 3, Len(log[t]))
                change == <<Ev("willRemove", C1), Ev("willMakeInactive", C1),
                            Ev("willMakeActive", C3), Ev("commit", C3),
                            Ev("didMakeInactive", C1), Ev("didRemove", C1)>>
                          \o Each("didAdd", Reverse(getControllersList(C3)))
                          \o <<Ev("didMakeActive", C3)>>
            IN  \/ /\ made = change
                   /\ ~Throwing(t)
                   /\ state_activeController = C3
                   /\ state_currentController = C3
                \/ /\ made = change \o <<Ev("didMakeActive_throws", C3)>>
                   /\ exc[t] = runtime_error(C3)
                   /\ state_activeController = C3
                   /\ state_currentController = C3
                \/ /\ made = <<Ev("willRemove", C1), Ev("willMakeInactive", C1),
                              Ev("willMakeInactive_throws", C1), Ev("didCancelRemove", C1)>>
                   /\ exc[t].kind = "ControllerRefuses"
                   /\ state_activeController = C1
                   /\ state_currentController = C1

\* P has taken the port from A, which was current and active: didAdd went to
\* D, Q and P before the didMakeActive of P.
C17_Witness ==
    \E t \in Threads :
        /\ CurrentChange(t, "A")
        /\ Top(t).c = "P"
        /\ ~Throwing(t)
        /\ Len(log[t]) = 12
        /\ state_currentController = "P"

IsWillRemove(e) == e.cb = "willRemove"
IsDidCancelRemove(e) == e.cb = "didCancelRemove"
IsWillRemoveThrows(e) == e.cb = "willRemove_throws"

\* The controllers of the events, in order.
Of(events) == [i \in 1..Len(events) |-> events[i].c]

\* The controllers whose willRemove has returned normally in the thread's
\* call, in the order of the calls: a willRemove that threw was the last.
Notified(t) ==
    LET called == Of(SelectSeq(log[t], IsWillRemove))
    IN  IF SelectSeq(log[t], IsWillRemoveThrows) = <<>> THEN called
        ELSE SubSeq(called, 1, Len(called) - 1)

\* The thread's queued function is about to leave with the exception that
\* ended its current controller change.
Aborted(t) ==
    /\ Ending(t)
    /\ Throwing(t)
    /\ SelectSeq(log[t], IsWillRemove) # <<>>
    /\ Count(t, Ev("commit", IF Top(t).fn = "makeActive" THEN Top(t).c ELSE NULL)) = 0

\* C18: when a current controller change is aborted, didCancelRemove goes to
\* the controllers whose willRemove had returned normally, in the reverse of
\* the order of the willRemove calls.
C18_CancelInReverse ==
    \A t \in Threads :
        Aborted(t) => Of(SelectSeq(log[t], IsDidCancelRemove)) = Reverse(Notified(t))

IsDidAdd(e) == e.cb = "didAdd"

AccessList(root) == {c \in Controllers : c = root \/ hasAsDelegateOrSubdelegate(root, c)}

\* The degree of c as a delegate of root: the length of the shortest chain of
\* delegations from root to c.
RECURSIVE DegreeOf(_, _)
DegreeOf(root, c) ==
    IF root = c THEN 0
    ELSE LET through == {DegreeOf(delegates[root][i], c) :
                            i \in {k \in 1..Len(delegates[root]) :
                                      c \in AccessList(delegates[root][k])}}
         IN  1 + CHOOSE d \in through : \A e \in through : d <= e

\* C19: in a current controller change the first willRemove goes to the
\* current controller and the others to its delegates and subdelegates;
\* didAdd goes once to each controller of the new access list, a controller of
\* higher degree never after one of lower degree, the new current controller
\* last.
C19_RootFirstOutLeafFirstIn ==
    \A t \in Threads :
        InTransitionBlocker(t) =>
            LET removes == Of(SelectSeq(log[t], IsWillRemove))
                adds == Of(SelectSeq(log[t], IsDidAdd))
                root == state_currentController
            IN  /\ removes # <<>> =>
                      /\ removes[1] = log[t][1].c
                      /\ \A i \in 2..Len(removes) :
                            hasAsDelegateOrSubdelegate(removes[1], removes[i])
                /\ adds # <<>> =>
                      /\ root # NULL
                      /\ {adds[i] : i \in 1..Len(adds)} = AccessList(root)
                      /\ Len(adds) = Cardinality(AccessList(root))
                      /\ adds[Len(adds)] = root
                      /\ \A i, j \in 1..Len(adds) :
                            i < j => DegreeOf(root, adds[i]) >= DegreeOf(root, adds[j])

\* A took the port from P, whose willRemove came before those of Q and D,
\* after P had taken it in the other thread's call with didAdd to D, Q and P.
C19_Witness ==
    \E t, u \in Threads :
        /\ Ending(t)
        /\ Of(SelectSeq(log[t], IsWillRemove)) = <<"P", "Q", "D">>
        /\ Of(SelectSeq(log[t], IsDidAdd)) = <<"A">>
        /\ Of(SelectSeq(log[u], IsDidAdd)) = <<"D", "Q", "P">>

\* The thread's call of makeActive or makeLockedActive of c is about to
\* return, and the makeActive in it found c active when it got the queue.
FoundActive(t, c) ==
    /\ Len(stk[t]) = 1
    /\ Top(t).c = c
    /\ \/ Top(t).fn = "makeActive" /\ Top(t).pc = "tb_dtor"
       \/ /\ Top(t).fn \in {"HSerial::makeActive", "HSerial::makeLockedActive"}
          /\ Top(t).pc = "am_dtor"
    /\ Len(log[t]) >= 2
    /\ log[t][2] = Ev("active", c)

\* C20: a makeActive that finds its controller active starts no change, in
\* the queue or from a callback: the step pushes no function, throws nothing
\* and leaves the controllers and the lock flags alone; the call that made it
\* returns with no callback made, the current and the active controller
\* unchanged by it (the controller still active while the call holds the
\* queue; once the queue is passed on another thread's transition may replace
\* it), and the lock flags unchanged too, except that a makeLockedActive of an
\* active controller that was not locked leaves it locked.
C20_MakeActiveIdempotent ==
    /\ [][\A t \in Threads :
            /\ stk[t] # <<>>
            /\ Top(t).fn = "makeActive"
            /\ Top(t).c = state_activeController
            /\ \/ Top(t).pc = "tb_wait"
               \/ /\ Top(t).pc = "start"
                  /\ shouldPerformConcurrentActiveControllerChange(t, Top(t).c)
            /\ stk'[t] # stk[t]
            => /\ \/ stk'[t] = Rest(t)
                  \/ stk'[t] = Rest(t) \o <<[Top(t) EXCEPT !.pc = "tb_dtor"]>>
               /\ exc'[t] = NoExc
               /\ UNCHANGED <<ctlVars, isLocked, _isLockedActive>>
               /\ SelectSeq(log'[t], IsCallback) = SelectSeq(log[t], IsCallback)]_vars
    /\ [](\A t \in Threads : \A c \in Controllers :
            FoundActive(t, c) =>
                /\ Len(log[t]) = 2
                /\ ~Throwing(t)
                /\ Top(t).pc = "tb_dtor" => state_activeController = c
                /\ state_activeController = snap[t][1].act
                /\ state_currentController = snap[t][1].cur
                /\ \A h \in HSerials :
                      IF Top(t).fn = "HSerial::makeLockedActive" /\ h = c
                      THEN isLocked[h] /\ _isLockedActive[h]
                      ELSE /\ isLocked[h] = snap[t][1].il[h]
                           /\ _isLockedActive[h] = snap[t][1].la[h])

\* A second makeLockedActive of a controller that is locked active returns.
C20_Witness ==
    \E t \in Threads : \E L \in HSerials :
        /\ FoundActive(t, L)
        /\ Top(t).fn = "HSerial::makeLockedActive"
        /\ snap[t][1].il[L]
        /\ snap[t][1].la[L]
        /\ lockedActive(L)

\* The thread's queued function fn of c has made its change, or none, and is
\* about to leave.
EndingOf(t, fn, c) == Ending(t) /\ Top(t).fn = fn /\ Top(t).c = c

\* C21: a makeInactive whose controller is not the active one when it gets
\* the queue does nothing: the step pushes no function and throws nothing,
\* and the function leaves with no callback made and the current and the
\* active controller as it found them, whether or not another controller is
\* active or its own is in the access list.
C21_MakeInactiveOfInactive ==
    /\ [][\A t \in Threads :
            /\ stk[t] # <<>>
            /\ Top(t).fn = "makeInactive"
            /\ Top(t).pc = "tb_wait"
            /\ Top(t).c # state_activeController
            /\ stk'[t] # stk[t]
            => /\ stk'[t] = Rest(t) \o <<[Top(t) EXCEPT !.pc = "tb_dtor"]>>
               /\ exc'[t] = NoExc
               /\ UNCHANGED <<ctlVars, accVars, hsVars>>]_vars
    /\ [](\A t \in Threads : \A c \in Controllers :
            (EndingOf(t, "makeInactive", c) /\ log[t][2].c # c) =>
                /\ Len(log[t]) = 2
                /\ ~Throwing(t)
                /\ state_currentController = log[t][1].c
                /\ state_activeController = log[t][2].c
                /\ state_currentController = snap[t][1].cur
                /\ state_activeController = snap[t][1].act)

\* A makeInactive of D, a member of the access list of P, leaves while P is
\* the active controller.
C21_Witness ==
    \E t \in Threads :
        /\ EndingOf(t, "makeInactive", "D")
        /\ log[t] = <<Ev("current", "P"), Ev("active", "P")>>
        /\ state_activeController = "P"

\* The callbacks of a change of the access list.
IsMembership(e) ==
    e.cb \in {"willRemove", "willRemove_throws", "didCancelRemove", "didRemove", "didAdd"}

\* C22: makeActive chooses its change when it gets the queue, from the state
\* it finds then. Its controller in the access list and not active: an active
\* controller change, which makes no willRemove, didCancelRemove, didRemove
\* or didAdd and leaves the current controller alone. Its controller outside
\* the access list, or no current controller: a current controller change,
\* which on normal return has made it the current controller. On normal
\* return the controller is the active controller.
C22_PathChosenWhenServed ==
    /\ [][\A t \in Threads :
            /\ stk[t] # <<>>
            /\ Top(t).fn = "makeActive"
            /\ Top(t).pc = "tb_wait"
            /\ stk'[t] # stk[t]
            => LET c == Top(t).c
                   pushed == SubSeq(stk'[t], Len(stk[t]) + 1, Len(stk'[t]))
               IN  /\ SubSeq(stk'[t], 1, Len(stk[t])) =
                         Rest(t) \o <<[Top(t) EXCEPT !.pc = "tb_dtor"]>>
                   /\ IF ~isInAccessList(c)
                      THEN pushed = performCurrentControllerChangeFrames(c)
                      ELSE IF c # state_activeController
                      THEN pushed = performActiveControllerChangeFrames(c)
                      ELSE pushed = <<>>
                   /\ UNCHANGED ctlVars]_vars
    /\ [](\A t \in Threads : \A c \in Controllers :
            EndingOf(t, "makeActive", c) =>
                LET found == log[t][1].c
                    listed == found # NULL /\ c \in AccessList(found)
                IN  /\ listed =>
                          /\ state_currentController = found
                          /\ SelectSeq(log[t], IsMembership) = <<>>
                    /\ (~listed /\ ~Throwing(t)) =>
                          /\ state_currentController = c
                          /\ Count(t, Ev("didAdd", c)) = 1
                    /\ ~Throwing(t) =>
                          /\ state_activeController = c
                          /\ log[t][2].c # c => Count(t, Ev("commit", c)) = 1)

\* The second transition of the run is a makeActive of D that found P, made
\* current by the first, current and active, and made D active by an active
\* controller change; D was in no access list before the first transition.
C22_Witness ==
    \E t \in Threads :
        /\ EndingOf(t, "makeActive", "D")
        /\ Top(t).number = 1
        /\ ~Throwing(t)
        /\ log[t][1] = Ev("current", "P")
        /\ log[t][2] = Ev("active", "P")
        /\ SelectSeq(log[t], IsMembership) = <<>>
        /\ state_currentController = "P"
        /\ state_activeController = "D"

NotCurrent == logic_error("not the current controller")

\* C23: a removeFromAccess whose controller is, when it gets the queue, a
\* delegate or subdelegate of the current controller throws a logic error: the
\* step pushes no function and changes no controller; the function leaves
\* with that error, no callback made and the current and the active controller
\* as found; and its TransitionBlocker still ends the transition and passes
\* the queue on.
C23_RemoveDelegateFails ==
    /\ [][\A t \in Threads :
            /\ stk[t] # <<>>
            /\ Top(t).fn = "removeFromAccess"
            /\ Top(t).pc = "tb_wait"
            /\ state_currentController # NULL
            /\ hasAsDelegateOrSubdelegate(state_currentController, Top(t).c)
            /\ stk'[t] # stk[t]
            => /\ stk'[t] = Rest(t) \o <<[Top(t) EXCEPT !.pc = "tb_dtor"]>>
               /\ exc'[t] = NotCurrent
               /\ UNCHANGED <<ctlVars, accVars, hsVars>>]_vars
    /\ [][\A t \in Threads :
            /\ stk[t] # <<>>
            /\ Top(t).fn = "removeFromAccess"
            /\ exc[t] = NotCurrent
            /\ stk'[t] # stk[t]
            => /\ UNCHANGED <<ctlVars, accVars, hsVars>>
               /\ Top(t).pc = "tb_dtor" =>
                     /\ ~state_transitionInProgress'
                     /\ Top(t)' = [Top(t) EXCEPT !.pc = "tb_ready"]
                     /\ exc'[t] = NotCurrent
               /\ Top(t).pc = "tb_ready" =>
                     /\ tb_readyNumber' = Top(t).number + 1
                     /\ IF Len(stk[t]) = 1
                        THEN Top(t)'.fn = "done" /\ Top(t)'.e = NotCurrent
                        ELSE stk'[t] = Rest(t) /\ exc'[t] = NotCurrent]_vars
    /\ [](\A t \in Threads : \A c \in Controllers :
            (/\ EndingOf(t, "removeFromAccess", c)
             /\ log[t][1].c # NULL
             /\ hasAsDelegateOrSubdelegate(log[t][1].c, c)) =>
                /\ exc[t] = NotCurrent
                /\ Len(log[t]) = 2
                /\ state_currentController = log[t][1].c
                /\ state_activeController = log[t][2].c)

\* The removeFromAccess of D has returned with the logic error while D is a
\* subdelegate of P, the current and active controller; the transition is
\* over and the queue ready for the number after its own.
C23_Witness ==
    \E t \in Threads :
        /\ stk[t] # <<>>
        /\ Top(t).fn = "done"
        /\ Top(t).op = "HSerial::removeFromAccess"
        /\ Top(t).c = "D"
        /\ Top(t).e = NotCurrent
        /\ log[t] = <<Ev("current", "P"), Ev("active", "P")>>
        /\ state_currentController = "P"
        /\ state_activeController = "P"
        /\ ~state_transitionInProgress
        /\ tb_readyNumber = 2

\* C24: a removeFromAccess that finds its controller current and returns
\* normally leaves no current and no active controller, every member of the
\* access list having got didRemove and the member that was active
\* didMakeInactive; one that finds its controller outside the access list
\* pushes no function, makes no callback and leaves the current and the
\* active controller as found.
C24_RemoveCurrent ==
    /\ [][\A t \in Threads :
            /\ stk[t] # <<>>
            /\ Top(t).fn = "removeFromAccess"
            /\ Top(t).pc = "tb_wait"
            /\ ~isInAccessList(Top(t).c)
            /\ stk'[t] # stk[t]
            => /\ stk'[t] = Rest(t) \o <<[Top(t) EXCEPT !.pc = "tb_dtor"]>>
               /\ exc'[t] = NoExc
               /\ UNCHANGED <<ctlVars, accVars, hsVars>>]_vars
    /\ [](\A t \in Threads : \A c \in Controllers :
            EndingOf(t, "removeFromAccess", c) =>
                LET found == log[t][1].c
                IN  /\ (found = c /\ ~Throwing(t)) =>
                          /\ state_currentController = NULL
                          /\ state_activeController = NULL
                          /\ Count(t, Ev("commit", NULL)) >= 1
                          /\ \A x \in AccessList(c) : Count(t, Ev("didRemove", x)) = 1
                    /\ (found = NULL \/ c \notin AccessList(found)) =>
                          /\ Len(log[t]) = 2
                          /\ ~Throwing(t)
                          /\ state_currentController = found
                          /\ state_activeController = log[t][2].c)

\* The removeFromAccess of P, the current controller, returns normally after
\* D, made active by the willRemove of P, was made inactive.
C24_Witness ==
    \E t \in Threads :
        /\ EndingOf(t, "removeFromAccess", "P")
        /\ ~Throwing(t)
        /\ log[t][1] = Ev("current", "P")
        /\ Count(t, Ev("didMakeInactive", "D")) = 1
        /\ state_currentController = NULL
        /\ state_activeController = NULL

\* The frame of the queued function the thread is in.
Queued(t) == CHOOSE f \in Frames(t) : f.pc = "tb_dtor"

\* C25: the current controller is written only by the second store of the
\* performTransition that a current controller change called, in the queued
\* makeActive of a controller outside the access list, which becomes the
\* current controller, or in the queued removeFromAccess of the current
\* controller, which leaves none; no step of an active controller change,
\* queued or concurrent, and no makeInactive writes it.
C25_CurrentOnlyByCurrentChange ==
    /\ [][state_currentController' # state_currentController =>
            \E t \in Threads :
               /\ At(t, "performTransition", "store_current")
               /\ stk'[t] # stk[t]
               /\ ~InConcurrentChange(t)
               /\ Len(stk[t]) >= 3
               /\ stk[t][Len(stk[t]) - 1].fn = "performCurrentControllerChange"
               /\ stk[t][Len(stk[t]) - 2] = Queued(t)
               /\ \/ /\ Queued(t).fn = "makeActive"
                     /\ ~isInAccessList(Queued(t).c)
                     /\ state_currentController' = Queued(t).c
                  \/ /\ Queued(t).fn = "removeFromAccess"
                     /\ state_currentController = Queued(t).c
                     /\ state_currentController' = NULL]_vars
    /\ [][\A t \in Threads :
            /\ stk'[t] # stk[t]
            /\ \/ InFrame(t, {"performActiveControllerChange", "makeInactive"})
               \/ InConcurrentChange(t)
            => state_currentController' = state_currentController]_vars

\* A makeActive of A has stored A as the current controller in place of P,
\* while D, made active by a concurrent change in the willRemove of P, left P
\* the current controller until then.
C25_Witness ==
    \E t \in Threads :
        /\ At(t, "performTransition", "didMakeInactive")
        /\ Top(t).flag
        /\ Top(t).c = "A"
        /\ Top(t).old = "D"
        /\ swapped[t]
        /\ log[t][1] = Ev("current", "P")
        /\ log[t][2] = Ev("active", "P")
        /\ state_currentController = "A"

\* The thread is about to call a transition utility for the controller of
\* its top frame.
AtUtility(t) ==
    \/ CallsUtility(t, "blockAccessCalls", {"block", "block_only", "block_unblock"})
    \/ CallsUtility(t, "unblockAccessCalls", {"unblock"})
    \/ CallsUtility(t, "waitForAllAccessCallsToReturn", {"wait"})

\* The step of the thread ends the function of its top frame with a logic
\* error.
EndsInLogicError(t) ==
    IF Len(stk[t]) = 1
    THEN Top(t)'.fn = "done" /\ Top(t)'.e.kind = "logic_error"
    ELSE stk'[t] = Rest(t) /\ exc'[t].kind = "logic_error"

\* C26: a call of blockAccessCalls, unblockAccessCalls or
\* waitForAllAccessCallsToReturn ends with a logic error if no transition is
\* in progress, or the calling thread is not the transition thread, or the
\* controller is not the active one, and then changes nothing of the access
\* state; in every other case it throws no logic error, and blockAccessCalls
\* leaves access blocked and unblockAccessCalls unblocked.
C26_UtilitiesOnlyInTransition ==
    [][\A t \in Threads :
          (AtUtility(t) /\ stk'[t] # stk[t]) =>
             IF \/ ~state_transitionInProgress
                \/ state_transitionThread # t
                \/ Top(t).c # state_activeController
             THEN /\ EndsInLogicError(t)
                  /\ UNCHANGED <<ctlVars, accVars, tranVars, tbVars, hsVars>>
             ELSE /\ ~EndsInLogicError(t)
                  /\ UNCHANGED <<ctlVars, state_numUnreturnedAccessCalls, tranVars,
                                 tbVars, hsVars>>
                  /\ CallsUtility(t, "blockAccessCalls",
                                  {"block", "block_only", "block_unblock"})
                        => ~state_accessIsUnblocked'
                  /\ CallsUtility(t, "unblockAccessCalls", {"unblock"})
                        => state_accessIsUnblocked'
                  /\ CallsUtility(t, "waitForAllAccessCallsToReturn", {"wait"})
                        => UNCHANGED state_accessIsUnblocked]_vars

\* P, the active controller, has blocked access in its willMakeInactive on
\* the transition thread; its unblockAccessCalls on the other thread has
\* ended with a logic error and access is still blocked.
C26_Witness ==
    \E t, u \in Threads :
        /\ t # u
        /\ state_transitionInProgress
        /\ state_transitionThread = t
        /\ At(t, "willMakeInactive", "wait")
        /\ Top(t).c = "P"
        /\ state_activeController = "P"
        /\ ~state_accessIsUnblocked
        /\ stk[u] # <<>>
        /\ Top(u).fn = "done"
        /\ Top(u).op = "unblockAccessCalls"
        /\ Top(u).c = "P"
        /\ Top(u).e = logic_error("unblockAccessCalls")

\* The controllers that the lists under construction lead to from c in at
\* most n steps.
RECURSIVE Within(_, _)
Within(c, n) ==
    IF n = 0 THEN {}
    ELSE LET near == Within(c, n - 1) \cup {c}
         IN  UNION {{registered[x][i] : i \in 1..Len(registered[x])} : x \in near}

DelegatesTo(c, d) == d \in Within(c, Cardinality(Controllers))

\* C27: registerDelegate throws and leaves every list of delegates as it was
\* when the delegate is none, the controller itself, one of its delegates of
\* the first degree, or a controller that delegates to it in any degree;
\* otherwise it appends the delegate to the controller's list; so no list
\* holds none or an entry twice and no controller ever delegates to itself,
\* in any degree.
C27_RegisterKeepsAcyclic ==
    /\ [][registration' # registration \/ registered' # registered =>
            LET self == registration'.self
                delegate == registration'.delegate
            IN  IF \/ delegate = NULL
                   \/ delegate = self
                   \/ \E i \in 1..Len(registered[self]) : registered[self][i] = delegate
                   \/ DelegatesTo(delegate, self)
                THEN /\ registration'.thrown = "invalid_argument"
                     /\ registered' = registered
                ELSE /\ registration'.thrown = "none"
                     /\ registered' = [registered EXCEPT ![self] = Append(@, delegate)]]_vars
    /\ [](\A c \in Controllers :
            /\ ~DelegatesTo(c, c)
            /\ \A i, j \in 1..Len(registered[c]) :
                  /\ registered[c][i] \in Controllers
                  /\ registered[c][i] = registered[c][j] => i = j)

\* P has registered Q and Q has registered D; D's registration of P, which
\* would close the circle, was rejected.
C27_Witness ==
    /\ registered["P"] = <<"Q">>
    /\ registered["Q"] = <<"D">>
    /\ registered["D"] = <<>>
    /\ registration = [self |-> "D", delegate |-> "P", thrown |-> "invalid_argument"]

\* The three calls of the round trip of L have returned normally.
RoundTripDone(t, L) ==
    /\ stk[t] # <<>>
    /\ Top(t).fn = "done"
    /\ Top(t).op = "roundTrip"
    /\ Top(t).pc = "none"
    /\ Top(t).c = L

\* The callbacks made on L.
OnController(t, L) ==
    LET IsOn(e) == e.c = L /\ IsCallback(e)
    IN  SelectSeq(log[t], IsOn)

\* C28, as the specification states it: after the round trip L is not active
\* and not locked, and the current and the active controller are those of the
\* start.
C28_RoundTripRestores ==
    \A t \in Threads : \A L \in HSerials :
        RoundTripDone(t, L) =>
            /\ state_activeController # L
            /\ ~isLocked[L]
            /\ ~_isLockedActive[L]
            /\ state_currentController = snap[t][1].cur
            /\ state_activeController = snap[t][1].act

\* C28: after makeLockedActive(), unlockActive() and makeInactive() of an
\* inactive, unlocked L, run without another thread and each returned
\* normally, L is not locked and no controller is active; the current
\* controller is the one of the start if L was in its access list, else L;
\* access is unblocked with no unreturned call and no transition in progress;
\* and L got willMakeActive, didAdd if it became the current controller,
\* didMakeActive, willMakeInactive and didMakeInactive, in this order.
C28_RoundTripEndsInactive ==
    \A t \in Threads : \A L \in HSerials :
        RoundTripDone(t, L) =>
            LET start == snap[t][1]
                listed == start.cur # NULL /\ L \in AccessList(start.cur)
            IN  /\ state_activeController = NULL
                /\ ~isLocked[L]
                /\ ~_isLockedActive[L]
                /\ state_currentController = (IF listed THEN start.cur ELSE L)
                /\ state_numUnreturnedAccessCalls = 0
                /\ state_accessIsUnblocked
                /\ ~state_transitionInProgress
                /\ OnController(t, L) =
                      <<Ev("willMakeActive", L)>>
                      \o (IF listed THEN <<>> ELSE <<Ev("didAdd", L)>>)
                      \o <<Ev("didMakeActive", L), Ev("willMakeInactive", L),
                           Ev("didMakeInactive", L)>>

\* The round trip of A has ended where P was the current and the active
\* controller at the start: A is the current controller now and none is
\* active.
C28_Witness ==
    \E t \in Threads :
        /\ RoundTripDone(t, "A")
        /\ snap[t][1].cur = "P"
        /\ snap[t][1].act = "P"
        /\ state_currentController = "A"
        /\ state_activeController = NULL

\* C29: all the controllers attached to the device share one Access object,
\* however their constructions were interleaved.
C29_OneAccessPerDevice ==
    \A c, d \in Controllers :
        controller_access[c] # 0 /\ controller_access[d] # 0
            => controller_access[c] = controller_access[d]

\* Another controller has registered c as a delegate, of any degree.
IsDelegate(c) == \E p \in Controllers : hasAsDelegateOrSubdelegate(p, c)

\* C30 as stated: the current controller is never a registered delegate, of
\* any degree, of another controller.
C30_CurrentIsNoDelegate ==
    state_currentController # NULL => ~IsDelegate(state_currentController)

\* C30: one delegation tree is in use at a time, the one of the current
\* controller, and between transitions the active controller is one of its
\* members. A registered delegate can be the current controller: a queued
\* makeActive of a delegate that is outside the access list when it gets the
\* queue starts a current controller change for it and, on normal return,
\* has made it the current controller; one that finds the delegate in the
\* access list leaves the current controller alone.
C30_DelegateBecomesCurrent ==
    /\ [](/\ ~state_transitionInProgress
          /\ state_activeController # NULL
          => /\ state_currentController # NULL
             /\ state_activeController \in AccessList(state_currentController))
    /\ [][\A t \in Threads :
            /\ stk[t] # <<>>
            /\ Top(t).fn = "makeActive"
            /\ Top(t).pc = "tb_wait"
            /\ IsDelegate(Top(t).c)
            /\ ~isInAccessList(Top(t).c)
            /\ stk'[t] # stk[t]
            => SubSeq(stk'[t], Len(stk[t]) + 1, Len(stk'[t])) =
                  performCurrentControllerChangeFrames(Top(t).c)]_vars
    /\ [](\A t \in Threads : \A c \in Controllers :
            (EndingOf(t, "makeActive", c) /\ IsDelegate(c) /\ ~Throwing(t)) =>
                LET found == log[t][1].c
                IN  IF found # NULL /\ c \in AccessList(found)
                    THEN state_currentController = found
                    ELSE state_currentController = c)

\* The makeActive of D, a subdelegate of P, found A current and has made D
\* the current controller.
C30_Witness ==
    \E t \in Threads :
        /\ EndingOf(t, "makeActive", "D")
        /\ ~Throwing(t)
        /\ log[t][1] = Ev("current", "A")
        /\ state_currentController = "D"
        /\ IsDelegate("D")

\* The thread is past the checks of performTransition and before the
\* AccessUnblocker of the change it belongs to.
Committed(t) ==
    /\ stk[t] # <<>>
    /\ \/ Top(t).fn = "performTransition" /\ Top(t).pc \in {"store_current", "didMakeInactive"}
       \/ At(t, "performActiveControllerChange", "didMakeActive") /\ ~Throwing(t)
       \/ At(t, "performActiveControllerChange", "unblock")
       \/ At(t, "performCurrentControllerChange", "performed") /\ ~Throwing(t)

DidMakeActiveThrew(t) ==
    /\ stk[t] # <<>>
    /\ Top(t).fn \in {"performActiveControllerChange", "performCurrentControllerChange"}
    /\ Top(t).pc = "unblock"
    /\ Top(t).c # NULL
    /\ exc[t] = runtime_error(Top(t).c)

\* C32: when the didMakeActive of the new controller throws, the change is
\* made already: the controller is the active controller, and the current one
\* after a current controller change, with didRemove and didAdd delivered
\* before didMakeActive was called; the change function unblocks access and
\* passes the error on with the controllers as they are; the queued
\* makeActive still ends the transition, passes the queue on and leaves with
\* the error, the controller active and the old active controller told
\* didMakeInactive.
C32_DidMakeActiveThrows ==
    /\ [](\A t \in Threads :
            DidMakeActiveThrew(t) =>
                LET c == Top(t).c
                    n == Len(log[t])
                IN  /\ state_activeController = c
                    /\ isInAccessList(c)
                    /\ ~state_accessIsUnblocked
                    /\ n >= 2
                    /\ log[t][n] = Ev("didMakeActive_throws", c)
                    /\ log[t][n - 1] = Ev("didMakeActive", c)
                    /\ Top(t).fn = "performCurrentControllerChange" =>
                          /\ state_currentController = c
                          /\ log[t][n - 2] = Ev("didAdd", c))
    /\ [][\A t \in Threads :
            (DidMakeActiveThrew(t) /\ stk'[t] # stk[t]) =>
                /\ stk'[t] = Rest(t)
                /\ exc'[t] = exc[t]
                /\ state_accessIsUnblocked'
                /\ UNCHANGED ctlVars]_vars
    /\ [][\A t \in Threads :
            /\ stk[t] # <<>>
            /\ Top(t).fn = "makeActive"
            /\ Top(t).pc \in {"tb_dtor", "tb_ready"}
            /\ exc[t] = runtime_error(Top(t).c)
            /\ stk'[t] # stk[t]
            => /\ UNCHANGED <<ctlVars, accVars>>
               /\ Top(t).pc = "tb_dtor" =>
                     /\ ~state_transitionInProgress'
                     /\ Top(t)' = [Top(t) EXCEPT !.pc = "tb_ready"]
                     /\ exc'[t] = exc[t]
               /\ Top(t).pc = "tb_ready" =>
                     /\ tb_readyNumber' = Top(t).number + 1
                     /\ IF Len(stk[t]) = 1
                        THEN Top(t)'.fn = "done" /\ Top(t)'.e = exc[t]
                        ELSE stk'[t] = Rest(t) /\ exc'[t] = exc[t]]_vars
    /\ [](\A t \in Threads : \A c \in Controllers :
            (EndingOf(t, "makeActive", c) /\ exc[t] = runtime_error(c)) =>
                LET found == log[t][1].c
                    old == log[t][2].c
                    listed == found # NULL /\ c \in AccessList(found)
                IN  /\ state_activeController = c
                    /\ state_accessIsUnblocked
                    /\ state_currentController = (IF listed THEN found ELSE c)
                    /\ old # NULL => Count(t, Ev("didMakeInactive", old)) = 1
                    /\ ~listed =>
                          /\ \A x \in AccessList(c) : Count(t, Ev("didAdd", x)) = 1
                          /\ found # NULL =>
                                \A x \in AccessList(found) : Count(t, Ev("didRemove", x)) = 1)

\* The makeActive of P found A current and active and made P the current and
\* the active controller; the didMakeActive of P threw, and the call leaves
\* with the error and access unblocked.
C32_Witness ==
    \E t \in Threads :
        /\ EndingOf(t, "makeActive", "P")
        /\ exc[t] = runtime_error("P")
        /\ log[t][1] = Ev("current", "A")
        /\ log[t][2] = Ev("active", "A")
        /\ state_currentController = "P"
        /\ state_activeController = "P"
        /\ state_accessIsUnblocked

C34_FastPathIff ==
    [][\A t \in Threads :
        /\ stk[t] # <<>>
        /\ Top(t).fn \in {"makeActive", "makeInactive", "removeFromAccess"}
        /\ Top(t).pc = "start"
        /\ stk'[t] # stk[t]
        => LET c == Top(t).c
               eligible == /\ Top(t).fn # "removeFromAccess"
                           /\ state_transitionInProgress
                           /\ state_concurrentActiveControllerChangeAllowed
                           /\ state_transitionThread = t
                           /\ state_currentController # NULL
                           /\ c \in AccessList(state_currentController)
               needed == IF Top(t).fn = "makeActive"
                         THEN c # state_activeController
                         ELSE c = state_activeController
               target == IF Top(t).fn = "makeActive" THEN c ELSE NULL
           IN  IF eligible
               THEN /\ UNCHANGED tbVars
                    /\ IF needed
                       THEN stk'[t] = Rest(t) \o <<[Top(t) EXCEPT !.pc = "fast_ret"]>>
                                      \o performActiveControllerChangeFrames(target)
                       ELSE stk'[t] = Rest(t) /\ exc'[t] = NoExc
               ELSE /\ tb_nextNumber' = tb_nextNumber + 1
                    /\ UNCHANGED tb_readyNumber
                    /\ stk'[t] = Rest(t) \o <<[Top(t) EXCEPT !.pc = "tb_wait",
                                                             !.number = tb_nextNumber]>>]_vars

\* A makeActive of D called in a callback of the second transition has made
\* D active and is about to return; it took no number: the next number is
\* still the one after the transition's.
C34_Witness ==
    \E t \in Threads :
        /\ Len(stk[t]) >= 2
        /\ Top(t).fn = "makeActive"
        /\ Top(t).pc = "fast_ret"
        /\ Top(t).c = "D"
        /\ state_activeController = "D"
        /\ Queued(t).number = 1
        /\ tb_nextNumber = 2

\* The thread runs a callback that is neither willRemove nor didCancelRemove,
\* or is between the callbacks of performTransition and of the change
\* function that called it.
InOtherCallback(t) ==
    /\ stk[t] # <<>>
    /\ \/ Top(t).fn = "willMakeInactive"
       \/ Top(t).fn = "performTransition"
       \/ At(t, "performActiveControllerChange", "didMakeActive")
       \/ At(t, "performCurrentControllerChange", "performed")

\* C35: in a transition the concurrent change is allowed while a willRemove
\* or a didCancelRemove callback runs and not allowed while any other
\* callback runs, those of a concurrent active controller change included; it
\* is not allowed when a queued function has just got the queue.
C35_FlagFalseInOtherCallbacks ==
    \A t \in Threads :
        InTransitionBlocker(t) =>
            /\ Top(t).fn \in {"willRemove", "didCancelRemove"} =>
                  state_concurrentActiveControllerChangeAllowed
            /\ InOtherCallback(t) => ~state_concurrentActiveControllerChangeAllowed

\* The thread is at the guard of an access call.
AtGuard(u) == At(u, "access", "start")

\* C36: an access call passes the guard only with no transition in progress,
\* or on the transition thread, or with access unblocked. At the guard, the
\* call of the transition thread can always go on, whether access is blocked
\* or not, and is admitted to the driver if its controller is active; the
\* call of another thread cannot go on while a transition is in progress with
\* access blocked; and with no transition in progress every call can go on.
C36_TransitionThreadNotBlocked ==
    /\ [][\A u \in Threads :
            (AtGuard(u) /\ stk'[u] # stk[u]) =>
                /\ \/ ~state_transitionInProgress
                   \/ state_transitionThread = u
                   \/ state_accessIsUnblocked
                /\ IF Top(u).c = state_activeController
                   THEN /\ stk'[u] = Rest(u) \o <<[Top(u) EXCEPT !.pc = "serial"]>>
                        /\ state_numUnreturnedAccessCalls' =
                              state_numUnreturnedAccessCalls + 1
                   ELSE UNCHANGED state_numUnreturnedAccessCalls]_vars
    /\ [](\A u \in Threads :
            AtGuard(u) =>
                /\ (state_transitionInProgress /\ state_transitionThread = u) =>
                      ENABLED AccessGuard_ctor(u)
                /\ ~state_transitionInProgress => ENABLED AccessGuard_ctor(u)
                /\ (/\ state_transitionInProgress
                    /\ state_transitionThread # u
                    /\ ~state_accessIsUnblocked) => ~ENABLED AccessGuard_ctor(u))

\* The access call that P's didMakeActive made on the transition thread is in
\* the driver with access blocked, while the other thread's call waits at
\* the guard.
C36_Witness ==
    \E t, u \in Threads :
        /\ t # u
        /\ Len(stk[t]) >= 2
        /\ InAccessCall(t, "P")
        /\ state_transitionInProgress
        /\ state_transitionThread = t
        /\ ~state_accessIsUnblocked
        /\ state_numUnreturnedAccessCalls = 1
        /\ AtGuard(u)

\* The place of the next willMakeActive after place i, or the end.
NextWillMakeActive(t, i) ==
    LET later == {j \in (i + 1)..Len(log[t]) : log[t][j].cb = "willMakeActive"}
    IN  IF later = {} THEN Len(log[t]) + 1
        ELSE CHOOSE j \in later : \A k \in later : j <= k

\* The callbacks of a transition that lock and unlock the mutex of L.
LockCallbacks ==
    {"willMakeInactive", "willMakeInactive_throws", "didMakeInactive",
     "didCancelMakeInactive", "willMakeActive", "didMakeActive"}

\* The last of these callbacks that the thread's call has made on L.
LastLockCallback(t, L) ==
    LET made == {i \in 1..Len(log[t]) : log[t][i].c = L /\ log[t][i].cb \in LockCallbacks}
    IN  IF made = {} THEN "none"
        ELSE log[t][CHOOSE i \in made : \A k \in made : k <= i].cb

\* C37: after each willMakeActive of a controller c the same transition
\* calls didMakeActive of c, once, after the store and the didMakeInactive of
\* the old controller, and before any further willMakeActive or the end of the
\* function; didMakeActive is never called without it. So the lock mutex of a
\* lockable controller L is held only by the transition thread, inside a
\* change, between L's willMakeInactive or willMakeActive and the matching
\* did* callback: it is free whenever no transition is between the two.
C37_LockMutexPaired ==
    /\ \A t \in Threads : \A i \in 1..Len(log[t]) :
          LET c == log[t][i].c
              next == NextWillMakeActive(t, i)
              answers == {j \in (i + 1)..(next - 1) : log[t][j] = Ev("didMakeActive", c)}
          IN  /\ log[t][i].cb = "willMakeActive" =>
                    /\ Cardinality(answers) <= 1
                    /\ (next <= Len(log[t]) \/ Ending(t)) => Cardinality(answers) = 1
              /\ log[t][i].cb = "didMakeActive" =>
                    \E j \in 1..(i - 1) :
                        /\ log[t][j] = Ev("willMakeActive", c)
                        /\ NextWillMakeActive(t, j) > i
    /\ \A L \in HSerials : \A t \in Threads :
          /\ isLockedMutex[L] = t =>
                /\ state_transitionInProgress
                /\ state_transitionThread = t
                /\ InFrame(t, {"performTransition", "performActiveControllerChange",
                               "performCurrentControllerChange"})
                /\ LastLockCallback(t, L) \in {"willMakeInactive", "willMakeActive"}
          /\ LastLockCallback(t, L) = "willMakeActive" => isLockedMutex[L] = t
          /\ (stk[t] # <<>> /\ Top(t).fn \in {"done", "HSerial::unlockActive"}) =>
                isLockedMutex[L] # t

\* A swap between the two lockable controllers is over: A gave up its mutex in
\* didMakeInactive, D in didMakeActive, and both mutexes are free.
C37_Witness ==
    \E t \in Threads :
        /\ Ending(t)
        /\ ~Throwing(t)
        /\ Count(t, Ev("willMakeInactive", "A")) = 1
        /\ Count(t, Ev("didMakeInactive", "A")) = 1
        /\ Count(t, Ev("willMakeActive", "D")) = 1
        /\ Count(t, Ev("didMakeActive", "D")) = 1
        /\ isLockedMutex = [c \in HSerials |-> NoThread]

\* C38: the count of unreturned access calls is never negative, and it is
\* zero whenever no controller is active; so a performTransition that found no
\* controller active never meets an unreturned access call: it passes the
\* checks and commits, and its logic error for a NULL controller is never
\* thrown.
C38_NoCallsWithoutActive ==
    /\ [](/\ state_numUnreturnedAccessCalls >= 0
          /\ state_activeController = NULL => state_numUnreturnedAccessCalls = 0)
    /\ [][\A t \in Threads :
            /\ At(t, "performTransition", "commit")
            /\ ~Throwing(t)
            /\ Top(t).old = NULL
            /\ stk'[t] # stk[t]
            => /\ state_activeController = NULL
               /\ state_numUnreturnedAccessCalls = 0
               /\ ~requirementsNotMet(NULL)
               /\ exc'[t] = NoExc
               /\ state_activeController' = Top(t).c
               /\ Len(stk'[t]) = Len(stk[t])]_vars

\* A performTransition that found no controller active has made P active,
\* while an access call of P waits at the guard on the other thread.
C38_Witness ==
    \E t, u \in Threads :
        /\ t # u
        /\ At(t, "performTransition", "didMakeInactive")
        /\ Top(t).old = NULL
        /\ state_activeController = "P"
        /\ state_numUnreturnedAccessCalls = 0
        /\ AtGuard(u)
        /\ Top(u).c = "P"

\* The thread waits in the queue inside a function of its own that holds it.
NestedWait(t) == stk[t] # <<>> /\ Top(t).pc = "tb_wait" /\ Nested(t)

\* The request at the top of the thread's stack cannot take the concurrent
\* branch although the thread is the transition thread.
NotEligible(t) ==
    \/ Top(t).fn = "removeFromAccess"
    \/ ~isInAccessList(Top(t).c)
    \/ ~state_concurrentActiveControllerChangeAllowed

\* C39: a removeFromAccess, a makeActive of a controller outside the current
\* access list, or a makeActive or makeInactive made while concurrent changes
\* are not allowed, called inside the function that holds the queue, takes a
\* new number, greater than the ready number. From then on the thread never
\* takes another step: the ready number, which only the end of the enclosing
\* function advances, stays the number of that function, the transition stays
\* in progress, and no function waiting in the queue on any thread is served.
C39_NestedRequestBlocksForever ==
    /\ [][\A t \in Threads :
            /\ Nested(t)
            /\ Top(t).pc = "start"
            /\ Top(t).fn \in {"makeActive", "makeInactive", "removeFromAccess"}
            /\ NotEligible(t)
            /\ stk'[t] # stk[t]
            => /\ stk'[t] = Rest(t) \o <<[Top(t) EXCEPT !.pc = "tb_wait",
                                                          !.number = tb_nextNumber]>>
               /\ tb_nextNumber' = tb_nextNumber + 1
               /\ tb_nextNumber > tb_readyNumber
               /\ NestedWait(t)']_vars
    /\ [][\A t \in Threads :
            NestedWait(t) =>
                /\ stk'[t] = stk[t]
                /\ UNCHANGED <<tb_readyNumber, state_transitionInProgress,
                               state_transitionThread, ctlVars>>
                /\ \A u \in Threads :
                      (stk[u] # <<>> /\ Top(u).pc = "tb_wait") => stk'[u] = stk[u]]_vars
    /\ [](\A t \in Threads :
            NestedWait(t) =>
                /\ state_transitionInProgress
                /\ state_transitionThread = t
                /\ \E i \in 1..Len(stk[t]) :
                      stk[t][i].pc = "tb_dtor" /\ stk[t][i].number = tb_readyNumber
                /\ \A u \in Threads :
                      (stk[u] # <<>> /\ Top(u).pc = "tb_wait") =>
                          /\ Top(u).number > tb_readyNumber
                          /\ ~ENABLED TransitionBlocker_ctor(u))

\* P's didMakeActive, called by the makeActive that holds the queue, has
\* called removeFromAccess(), which waits with the next number; the other
\* thread's call waits behind it.
C39_Witness ==
    \E t, u \in Threads :
        /\ t # u
        /\ NestedWait(t)
        /\ Top(t).fn = "removeFromAccess"
        /\ Top(t).c = "P"
        /\ stk[t][1].fn = "makeActive"
        /\ state_activeController = "P"
        /\ ~state_accessIsUnblocked
        /\ stk[u] # <<>>
        /\ Top(u).pc = "tb_wait"
        /\ Top(u).number > Top(t).number

\* ---------------------------------------------------------- liveness
\* The state after P.makeActive() has returned on one of the threads; the
\* queue's numbers are counted from here.
InitLive ==
    /\ Constructed
    /\ state_currentController = "P"
    /\ state_activeController = "P"
    /\ state_numUnreturnedAccessCalls = 0
    /\ state_accessIsUnblocked = TRUE
    /\ state_transitionInProgress = FALSE
    /\ state_concurrentActiveControllerChangeAllowed = FALSE
    /\ state_transitionThread \in Threads
    /\ tb_nextNumber = 0
    /\ tb_readyNumber = 0
    /\ isLocked \in [HSerials -> BOOLEAN]
    /\ _isLockedActive = [c \in HSerials |-> FALSE]
    /\ setIsLockedActive = [c \in HSerials |-> FALSE]
    /\ am_callThread = [c \in HSerials |-> NoThread]
    /\ isLockedMutex = [c \in HSerials |-> NoThread]
    /\ stk = [t \in Threads |-> <<>>]
    /\ exc = [t \in Threads |-> NoExc]
    /\ snap = [t \in Threads |-> <<>>]
    /\ swapped = [t \in Threads |-> FALSE]
    /\ log = [t \in Threads |-> <<>>]

\* The calls under way that have not taken their number yet.
Pending == {u \in Threads : stk[u] # <<>> /\ TicketFrames(u) = {}}

\* An idle thread calls a function of P or of its delegate D: it is called
\* only if a number is left for it, so that no call under way is ever held
\* up by the cap on the numbers.
InvokeLive(t) ==
    /\ stk[t] = <<>>
    /\ tb_nextNumber + Cardinality(Pending) < MaxTicket
    /\ \E f \in {Frame("access", "start", "P"),
                 Frame("makeActive", "start", "P"),
                 Frame("makeInactive", "start", "P"),
                 Frame("removeFromAccess", "start", "P"),
                 Frame("HSerial::makeActive", "start", "D"),
                 Frame("HSerial::makeInactive", "start", "D")} :
          stk' = [stk EXCEPT ![t] = <<f>>]
    /\ UNCHANGED <<ctlVars, accVars, tranVars, tbVars, hsVars, exc>>
    /\ History(t)

\* A step of the thread inside a call, up to the return to its caller.
Run(t) ==
    \/ Finish(t)
    \/ AccessGuard_ctor(t)
    \/ AccessGuard_dtor(t)
    \/ makeActive(t)
    \/ makeInactive(t)
    \/ removeFromAccess(t)
    \/ ConcurrentChangeReturn(t)
    \/ TransitionBlocker_ctor(t)
    \/ TransitionBlocker_dtor(t)
    \/ TransitionBlocker_ready(t)
    \/ HSerial_willMakeInactive(t)
    \/ HSerial_willMakeInactive_lock(t)
    \/ willMakeInactive(t)
    \/ blockAccessCalls(t)
    \/ waitForAllAccessCallsToReturn(t)
    \/ performTransition(t)
    \/ performTransition_current(t)
    \/ performTransition_didMakeInactive(t)
    \/ performActiveControllerChange(t)
    \/ performActiveControllerChange_end(t)
    \/ performCurrentControllerChange(t)
    \/ performCurrentControllerChange_willRemove(t)
    \/ performCurrentControllerChange_notified(t)
    \/ performCurrentControllerChange_performed(t)
    \/ performCurrentControllerChange_didCancelRemove(t)
    \/ performCurrentControllerChange_end(t)
    \/ willRemove(t)
    \/ willRemove_used(t)
    \/ didCancelRemove(t)
    \/ didCancelRemove_used(t)
    \/ AccessManagementGuard_ctor(t)
    \/ AccessManagementGuard_dtor(t)

NextLive == \E t \in Threads : InvokeLive(t) \/ Run(t)

\* Fair scheduling: a thread that can go on inside its call does so.
SpecLive ==
    /\ InitLive
    /\ [][NextLive]_vars
    /\ \A t \in Threads : WF_vars(Run(t))

\* C40: under fair scheduling, with callbacks that return or refuse, drain
\* waits that succeed or time out and no queued request made in a callback,
\* every call of makeActive, makeInactive or removeFromAccess, of the
\* controller or of the HSerial, returns in the end, normally or with an
\* error, and every access call that waits at the guard is admitted or fails
\* in the end.
C40_EveryCallReturns ==
    \A t \in Threads :
        /\ (stk[t] # <<>> /\ stk[t][1].fn # "access")
              ~> (stk[t] # <<>> /\ Top(t).fn = "done")
        /\ At(t, "access", "start") ~> ~At(t, "access", "start")

====
